---- MODULE Spec2Model ----
(***************************************************************************)
(* A model of the offst Funder/Messenger handler                           *)
(* (src/src/funder/handler/handle_friend.rs, src/src/funder/handler/mod.rs) *)
(* and of the pieces it calls.  The handler is a function from             *)
(* (state, cache, event) to (cache, mutations, tasks); it is modelled as   *)
(* operators over a handler record                                         *)
(*   h = [state, cache, mutations, messenger_tasks, panicked, trace]       *)
(* as MutableMessengerHandler carries them (trace is a history of the      *)
(* branches taken, kept for the properties).  A Rust panic                 *)
(* (expect / unwrap / unreachable!) sets h.panicked: the event then        *)
(* produces nothing and the caller's state is left as it was.              *)
(*                                                                         *)
(* The token channel ledger, the directional channel, the freeze guard     *)
(* and MessengerState::mutate are not in the source tree; they are         *)
(* modelled from the written specification (sections 3, 4.C, 4.D, 4.E).    *)
(***************************************************************************)
EXTENDS Integers, Sequences, FiniteSets, TLC

(***************************************************************************)
(* Options are sequences of length at most one.                            *)
(***************************************************************************)
None == <<>>

Some(x) == <<x>>

IsSome(o) == Len(o) > 0

Unwrap(o) == o[1]

MapPut(m, k, v) == [x \in (DOMAIN m) \cup {k} |-> IF x = k THEN v ELSE m[x]]

MapDel(m, k) == [x \in (DOMAIN m) \ {k} |-> m[x]]

Min(a, b) == IF a <= b THEN a ELSE b

\* Rust integer division truncates toward zero.
TruncDiv(a, b) == IF a >= 0 THEN a \div b ELSE -((-a) \div b)

\* With(e, LAMBDA v : body) is body with the value of e for v.
With(value, Body(_)) == Body(value)

(***************************************************************************)
(* Program constants.                                                      *)
(***************************************************************************)
\* const MAX_MOVE_TOKEN_LENGTH: usize = 0x1000
MAX_MOVE_TOKEN_LENGTH == 4096

\* friend.local_max_channels: every friend is given one token channel, index 0.
LocalMaxChannels == 1

\* Stand-in for 2^64 (two_pow_64) in the usable-ratio arithmetic: TLC's
\* integers are 32 bit, so the ratio is kept in sixteenths.
TwoPow64 == 16

(***************************************************************************)
(* Routes (FriendsRoute): sequences of distinct public keys, 0-based       *)
(* indices as in the code.                                                 *)
(***************************************************************************)
pk_index(route, pk) ==
    IF \E i \in 1..Len(route) : route[i] = pk
    THEN Some((CHOOSE i \in 1..Len(route) : route[i] = pk) - 1)
    ELSE None

pk_by_index(route, index) ==
    IF index >= 0 /\ index < Len(route) THEN Some(route[index + 1]) ELSE None

\* PkPairPosition of the consecutive pair (pk1, pk2): Dest when pk2 is the
\* last node, NotDest(i) with i the index of pk1 otherwise; None when the
\* pair is not on the route.
find_pk_pair(route, pk1, pk2) ==
    IF \E i \in 1..(Len(route) - 1) : route[i] = pk1 /\ route[i + 1] = pk2
    THEN LET i == CHOOSE j \in 1..(Len(route) - 1) :
                      route[j] = pk1 /\ route[j + 1] = pk2
         IN  IF i + 1 = Len(route)
             THEN Some([kind |-> "Dest", i |-> i - 1])
             ELSE Some([kind |-> "NotDest", i |-> i - 1])
    ELSE None

(***************************************************************************)
(* Token channel ledger (specification section 4.C).                       *)
(***************************************************************************)
\* RequestSendMessage::create_pending_request
create_pending_request(request_send_msg) ==
    [request_id |-> request_send_msg.request_id,
     route |-> request_send_msg.route,
     dest_payment |-> request_send_msg.dest_payment,
     per_hop_fee |-> request_send_msg.per_hop_fee,
     freeze_links |-> request_send_msg.freeze_links]

\* credit_to_freeze at the hop whose receiving node has 0-based index i:
\* dest_payment + (route_len - i - 1) * per_hop_fee.
credit_to_freeze(pending, i) ==
    pending.dest_payment + (Len(pending.route) - i - 1) * pending.per_hop_fee

\* The credit a pending request froze on the channel between local and
\* remote: the receiving node of that hop is whichever of the two comes
\* later on the route.
pending_credit(pending, local_pk, remote_pk) ==
    With(pk_index(pending.route, local_pk), LAMBDA a :
    With(pk_index(pending.route, remote_pk), LAMBDA b :
        credit_to_freeze(pending,
            IF IsSome(a) /\ IsSome(b)
            THEN (IF Unwrap(a) > Unwrap(b) THEN Unwrap(a) ELSE Unwrap(b))
            ELSE Len(pending.route) - 1)))

\* A new ledger: TokenChannel::new(local, remote, balance)
new_token_channel(balance, max_debt) ==
    [balance |-> balance,
     local_max_debt |-> max_debt,
     remote_max_debt |-> max_debt,
     local_pending_debt |-> 0,
     remote_pending_debt |-> 0,
     pending_local_requests |-> <<>>,
     pending_remote_requests |-> <<>>,
     local_send_price |-> Some(1),
     remote_send_price |-> Some(1)]

\* The signer a response must carry: the destination of the route.
response_signature_valid(pending, response_send_msg) ==
    response_send_msg.signature = pending.route[Len(pending.route)]

\* The reporting node of a failure received by local: a node after local on
\* the route that is not the destination; the first signature of the chain
\* is the reporter's.
failure_reporter_valid(pending, failure_send_msg, local_pk) ==
    LET me == pk_index(pending.route, local_pk)
        rp == pk_index(pending.route, failure_send_msg.reporting_public_key)
    IN  /\ IsSome(me)
        /\ IsSome(rp)
        /\ Unwrap(rp) > Unwrap(me)
        /\ Unwrap(rp) < Len(pending.route) - 1
        /\ failure_send_msg.rand_nonce_signatures /= <<>>
        /\ failure_send_msg.rand_nonce_signatures[1]
               = failure_send_msg.reporting_public_key

\* Precondition of an operation received from the remote side.
incoming_op_valid(tc, op, local_pk, remote_pk) ==
    CASE op.type = "SetRemoteMaxDebt" -> op.v >= tc.local_pending_debt
      [] op.type = "EnableRequests" -> TRUE
      [] op.type = "DisableRequests" -> TRUE
      [] op.type = "RequestSendMessage" ->
            LET pos == find_pk_pair(op.msg.route, remote_pk, local_pk)
            IN  /\ IsSome(tc.local_send_price)
                /\ op.msg.request_id \notin DOMAIN tc.pending_remote_requests
                /\ IsSome(pos)
                /\ tc.balance + tc.remote_pending_debt
                     + pending_credit(op.msg, local_pk, remote_pk)
                       <= tc.remote_max_debt
      [] op.type = "ResponseSendMessage" ->
            /\ op.msg.request_id \in DOMAIN tc.pending_local_requests
            /\ response_signature_valid(
                   tc.pending_local_requests[op.msg.request_id], op.msg)
      [] op.type = "FailureSendMessage" ->
            /\ op.msg.request_id \in DOMAIN tc.pending_local_requests
            /\ failure_reporter_valid(
                   tc.pending_local_requests[op.msg.request_id], op.msg, local_pk)
      [] OTHER -> FALSE

\* Effect of an operation received from the remote side.
incoming_op_apply(tc, op, local_pk, remote_pk) ==
    CASE op.type = "SetRemoteMaxDebt" -> [tc EXCEPT !.local_max_debt = op.v]
      [] op.type = "EnableRequests" -> [tc EXCEPT !.remote_send_price = Some(op.v)]
      [] op.type = "DisableRequests" -> [tc EXCEPT !.remote_send_price = None]
      [] op.type = "RequestSendMessage" ->
            [tc EXCEPT
               !.pending_remote_requests =
                   MapPut(@, op.msg.request_id, create_pending_request(op.msg)),
               !.remote_pending_debt =
                   @ + pending_credit(op.msg, local_pk, remote_pk)]
      [] op.type = "ResponseSendMessage" ->
            LET p == tc.pending_local_requests[op.msg.request_id]
            IN  [tc EXCEPT
                   !.pending_local_requests = MapDel(@, op.msg.request_id),
                   !.balance = @ - p.dest_payment,
                   !.local_pending_debt = @ - pending_credit(p, local_pk, remote_pk)]
      [] op.type = "FailureSendMessage" ->
            LET p == tc.pending_local_requests[op.msg.request_id]
            IN  [tc EXCEPT
                   !.pending_local_requests = MapDel(@, op.msg.request_id),
                   !.local_pending_debt = @ - pending_credit(p, local_pk, remote_pk)]
      [] OTHER -> tc

\* Precondition of an operation queued for the remote side
\* (OutgoingTokenChannel::queue_operation), the mirror image of the above.
outgoing_op_valid(tc, op, local_pk, remote_pk) ==
    CASE op.type = "SetRemoteMaxDebt" -> op.v >= tc.remote_pending_debt
      [] op.type = "EnableRequests" -> TRUE
      [] op.type = "DisableRequests" -> TRUE
      [] op.type = "RequestSendMessage" ->
            LET pos == find_pk_pair(op.msg.route, local_pk, remote_pk)
            IN  /\ IsSome(tc.remote_send_price)
                /\ op.msg.request_id \notin DOMAIN tc.pending_local_requests
                /\ IsSome(pos)
                /\ tc.balance - tc.local_pending_debt
                     - pending_credit(op.msg, local_pk, remote_pk)
                       >= -tc.local_max_debt
      [] op.type = "ResponseSendMessage" ->
            op.msg.request_id \in DOMAIN tc.pending_remote_requests
      [] op.type = "FailureSendMessage" ->
            op.msg.request_id \in DOMAIN tc.pending_remote_requests
      [] OTHER -> FALSE

\* Effect of an operation queued for the remote side.
outgoing_op_apply(tc, op, local_pk, remote_pk) ==
    CASE op.type = "SetRemoteMaxDebt" -> [tc EXCEPT !.remote_max_debt = op.v]
      [] op.type = "EnableRequests" -> [tc EXCEPT !.local_send_price = Some(op.v)]
      [] op.type = "DisableRequests" -> [tc EXCEPT !.local_send_price = None]
      [] op.type = "RequestSendMessage" ->
            [tc EXCEPT
               !.pending_local_requests =
                   MapPut(@, op.msg.request_id, create_pending_request(op.msg)),
               !.local_pending_debt =
                   @ + pending_credit(op.msg, local_pk, remote_pk)]
      [] op.type = "ResponseSendMessage" ->
            LET p == tc.pending_remote_requests[op.msg.request_id]
            IN  [tc EXCEPT
                   !.pending_remote_requests = MapDel(@, op.msg.request_id),
                   !.balance = @ + p.dest_payment,
                   !.remote_pending_debt = @ - pending_credit(p, local_pk, remote_pk)]
      [] op.type = "FailureSendMessage" ->
            LET p == tc.pending_remote_requests[op.msg.request_id]
            IN  [tc EXCEPT
                   !.pending_remote_requests = MapDel(@, op.msg.request_id),
                   !.remote_pending_debt = @ - pending_credit(p, local_pk, remote_pk)]
      [] OTHER -> tc

(***************************************************************************)
(* Channel tokens.  A token is a natural number id + TokenSpan * gen: a    *)
(* token made with a fresh rand_nonce has gen 0 and is named by its nonce  *)
(* (the hash of a batch with a fresh nonce is a fresh value); the tokens   *)
(* derived deterministically from a token t keep its id and raise gen.     *)
(***************************************************************************)
TokenSpan == 5

TokenId(t) == t % TokenSpan

TokenGen(t) == t \div TokenSpan

\* RandValue::new(rng): a nonce that names no token in `used`.
fresh_nonce(used) ==
    CHOOSE n \in 0..(TokenSpan - 1) :
        /\ n \notin {TokenId(t) : t \in used}
        /\ \A m \in 0..(n - 1) : m \in {TokenId(t) : t \in used}

(***************************************************************************)
(* Directional token channel (specification section 4.D).                  *)
(*   directional = [direction, new_token, outgoing, token_channel]         *)
(* direction "Incoming": the last move token was received, we hold the     *)
(* token; "Outgoing": we sent the last move token, kept in `outgoing`.     *)
(***************************************************************************)
\* calc_channel_reset_token: derived from new_token alone.
calc_channel_reset_token(directional) == directional.new_token + TokenSpan

\* balance_for_reset
balance_for_reset(directional) == directional.token_channel.balance

\* The new_token of a batch: bound to old_token, operations and rand_nonce.
calc_channel_next_token(inner) == inner.rand_nonce

RECURSIVE simulate_process_operations_list(_, _, _, _)
\* Apply the operations in order on a clone of the ledger; stop at the first
\* one the ledger refuses.
simulate_process_operations_list(tc, operations, local_pk, remote_pk) ==
    IF operations = <<>>
    THEN [ok |-> TRUE, tc |-> tc, mutations |-> <<>>, incoming_messages |-> <<>>]
    ELSE LET op == Head(operations)
         IN  IF ~incoming_op_valid(tc, op, local_pk, remote_pk)
             THEN [ok |-> FALSE, tc |-> tc, mutations |-> <<>>,
                   incoming_messages |-> <<>>]
             ELSE LET msg ==
                        CASE op.type = "RequestSendMessage" ->
                               <<[type |-> "Request", msg |-> op.msg]>>
                          [] op.type = "ResponseSendMessage" ->
                               <<[type |-> "Response", msg |-> op.msg,
                                  pending_request |->
                                    tc.pending_local_requests[op.msg.request_id]]>>
                          [] op.type = "FailureSendMessage" ->
                               <<[type |-> "Failure", msg |-> op.msg,
                                  pending_request |->
                                    tc.pending_local_requests[op.msg.request_id]]>>
                          [] OTHER -> <<>>
                  IN  With(simulate_process_operations_list(
                               incoming_op_apply(tc, op, local_pk, remote_pk),
                               Tail(operations), local_pk, remote_pk),
                           LAMBDA rest :
                      [ok |-> rest.ok,
                       tc |-> rest.tc,
                       mutations |->
                           <<[type |-> "TcMutation", side |-> "incoming",
                              op |-> op]>> \o rest.mutations,
                       incoming_messages |-> msg \o rest.incoming_messages])

\* simulate_receive_move_token: the outcome of receiving a move token, with
\* no effect on the channel.
simulate_receive_move_token(directional, inner, new_token, local_pk, remote_pk) ==
    IF directional.direction = "Incoming"
    THEN IF new_token = directional.new_token
         THEN [ok |-> TRUE, kind |-> "Duplicate", mutations |-> <<>>,
               incoming_messages |-> <<>>]
         ELSE [ok |-> FALSE, kind |-> "TokenNotOwned", mutations |-> <<>>,
               incoming_messages |-> <<>>]
    ELSE IF inner.old_token = directional.new_token
         THEN With(simulate_process_operations_list(
                       directional.token_channel, inner.operations,
                       local_pk, remote_pk),
                   LAMBDA res :
                  IF res.ok
                  THEN [ok |-> TRUE, kind |-> "Received",
                        mutations |-> res.mutations \o
                            <<[type |-> "SetDirection", direction |-> "Incoming",
                               new_token |-> new_token, outgoing |-> None]>>,
                        incoming_messages |-> res.incoming_messages]
                  ELSE [ok |-> FALSE, kind |-> "InvalidTransaction",
                        mutations |-> <<>>, incoming_messages |-> <<>>])
         ELSE IF new_token = Unwrap(directional.outgoing).old_token
              THEN [ok |-> TRUE, kind |-> "RetransmitOutgoing",
                    mutations |-> <<>>, incoming_messages |-> <<>>]
              ELSE [ok |-> FALSE, kind |-> "ChainInconsistent",
                    mutations |-> <<>>, incoming_messages |-> <<>>]

\* DirectionalTokenChannel::mutate
directional_mutate(directional, dm, local_pk, remote_pk) ==
    CASE dm.type = "TcMutation" ->
           [directional EXCEPT !.token_channel =
               IF dm.side = "incoming"
               THEN incoming_op_apply(@, dm.op, local_pk, remote_pk)
               ELSE outgoing_op_apply(@, dm.op, local_pk, remote_pk)]
      [] dm.type = "SetDirection" ->
           [directional EXCEPT !.direction = dm.direction,
                               !.new_token = dm.new_token,
                               !.outgoing = dm.outgoing]
      [] OTHER -> directional

\* The channel after the remote side reset it on our terms: the balance is
\* balance_for_reset, the pending tables are cleared, and the direction is
\* Outgoing with an empty move token over the reset token.
new_from_remote_reset(directional) ==
    LET reset_token == calc_channel_reset_token(directional)
        inner == [operations |-> <<>>, old_token |-> reset_token,
                  rand_nonce |-> reset_token + TokenSpan]
    IN  [direction |-> "Outgoing",
         new_token |-> calc_channel_next_token(inner),
         outgoing |-> Some(inner),
         token_channel |->
             [directional.token_channel EXCEPT
                !.balance = balance_for_reset(directional),
                !.local_pending_debt = 0,
                !.remote_pending_debt = 0,
                !.pending_local_requests = <<>>,
                !.pending_remote_requests = <<>>]]

\* get_outgoing_move_token: the FriendMoveToken of the Outgoing direction.
get_outgoing_move_token(directional, channel_index) ==
    IF directional.direction = "Outgoing"
    THEN Some([token_channel_index |-> channel_index,
               operations |-> Unwrap(directional.outgoing).operations,
               old_token |-> Unwrap(directional.outgoing).old_token,
               rand_nonce |-> Unwrap(directional.outgoing).rand_nonce,
               new_token |-> directional.new_token])
    ELSE None

(***************************************************************************)
(* MessengerState::mutate: State x Mutation -> State.                      *)
(*   state  = [local_public_key, friends]                                  *)
(*   friend = [local_max_channels, remote_max_channels, pending_requests,  *)
(*             tc_slots]                                                   *)
(*   slot   = [directional, pending_operations, wanted_remote_max_debt,    *)
(*             wanted_local_send_price, inconsistency_status,              *)
(*             opt_pending_send_funds_id]                                  *)
(***************************************************************************)
slot_mutate(slot, sm, local_pk, remote_pk) ==
    CASE sm.type = "DirectionalMutation" ->
           [slot EXCEPT !.directional =
               directional_mutate(@, sm.dm, local_pk, remote_pk)]
      [] sm.type = "PushBackPendingOperation" ->
           [slot EXCEPT !.pending_operations = Append(@, sm.op)]
      [] sm.type = "PopFrontPendingOperation" ->
           [slot EXCEPT !.pending_operations = Tail(@)]
      [] sm.type = "SetIncomingInconsistency" ->
           [slot EXCEPT !.inconsistency_status.incoming = sm.v]
      [] sm.type = "SetOutgoingInconsistency" ->
           [slot EXCEPT !.inconsistency_status.outgoing = sm.v]
      [] sm.type = "SetPendingSendFundsId" ->
           [slot EXCEPT !.opt_pending_send_funds_id = sm.v]
      [] sm.type = "RemoteReset" ->
           [slot EXCEPT !.directional = new_from_remote_reset(@)]
      [] OTHER -> slot

friend_mutate(friend, fm, local_pk, remote_pk) ==
    CASE fm.type = "SlotMutation" ->
           [friend EXCEPT !.tc_slots[fm.channel_index] =
               slot_mutate(@, fm.sm, local_pk, remote_pk)]
      [] fm.type = "PushBackPendingRequest" ->
           [friend EXCEPT !.pending_requests = Append(@, fm.req)]
      [] fm.type = "PopFrontPendingRequest" ->
           [friend EXCEPT !.pending_requests = Tail(@)]
      [] fm.type = "SetRemoteMaxChannels" ->
           [friend EXCEPT !.remote_max_channels = fm.v]
      [] OTHER -> friend

\* Defined when the friend and the slot exist; the handler checks that
\* before it builds the mutation (handler_mutation_ok below).
mutate(state, messenger_mutation) ==
    [state EXCEPT !.friends[messenger_mutation.pk] =
        friend_mutate(@, messenger_mutation.fm, state.local_public_key,
                      messenger_mutation.pk)]

\* Builders of the nested mutation values.
SlotMut(pk, channel_index, sm) ==
    [pk |-> pk,
     fm |-> [type |-> "SlotMutation", channel_index |-> channel_index, sm |-> sm]]

DirectionalMut(pk, channel_index, dm) ==
    SlotMut(pk, channel_index, [type |-> "DirectionalMutation", dm |-> dm])

FriendMut(pk, fm) == [pk |-> pk, fm |-> fm]

(***************************************************************************)
(* Freeze guard (specification section 4.E): frozen[(prev_pk, next_pk)] is *)
(* the sum of the credits frozen by the pending requests whose neighbours  *)
(* of the local node on the route are prev_pk and next_pk ("-" when the    *)
(* local node is the first or the last node of the route).                 *)
(***************************************************************************)
frozen_key(pending, local_pk) ==
    With(pk_index(pending.route, local_pk), LAMBDA me :
    With(IF IsSome(me) THEN Unwrap(me) ELSE -2, LAMBDA i :
    With(pk_by_index(pending.route, i - 1), LAMBDA prev :
    With(pk_by_index(pending.route, i + 1), LAMBDA next :
        <<IF IsSome(prev) THEN Unwrap(prev) ELSE "-",
          IF IsSome(next) THEN Unwrap(next) ELSE "-">>))))

frozen_credit(freeze_guard, key) ==
    IF key \in DOMAIN freeze_guard THEN freeze_guard[key] ELSE 0

frozen_amount(pending, local_pk) ==
    With(pk_index(pending.route, local_pk), LAMBDA me :
        credit_to_freeze(pending, IF IsSome(me) THEN Unwrap(me) ELSE 0))

add_frozen_credit(freeze_guard, pending, local_pk) ==
    With(frozen_key(pending, local_pk), LAMBDA key :
        MapPut(freeze_guard, key,
               frozen_credit(freeze_guard, key) + frozen_amount(pending, local_pk)))

sub_frozen_credit(freeze_guard, pending, local_pk) ==
    With(frozen_key(pending, local_pk), LAMBDA key :
    With(frozen_credit(freeze_guard, key) - frozen_amount(pending, local_pk),
         LAMBDA left :
        IF left > 0 THEN MapPut(freeze_guard, key, left)
        ELSE MapDel(freeze_guard, key)))

\* What a freeze link lets the following hops freeze:
\* shared_credits * usable_ratio.
freeze_link_allowance(link) ==
    IF link.usable_ratio.one THEN link.shared_credits
    ELSE (link.shared_credits * link.usable_ratio.num) \div TwoPow64

\* verify_freezing_links: TRUE for Some(()), FALSE for None.
verify_freezing_links(freeze_guard, request_send_msg) ==
    \A j \in 1..Len(request_send_msg.freeze_links) :
        j + 2 <= Len(request_send_msg.route) =>
            frozen_credit(freeze_guard,
                          <<request_send_msg.route[j], request_send_msg.route[j + 2]>>)
              + credit_to_freeze(request_send_msg, j + 1)
                <= freeze_link_allowance(request_send_msg.freeze_links[j])

(***************************************************************************)
(* MutableMessengerHandler (handler/mod.rs).                               *)
(***************************************************************************)
\* MessengerHandler::gen_mutable: a clone of the state, no mutations, no tasks.
gen_mutable(messenger_state, messenger_cache) ==
    [state |-> messenger_state,
     cache |-> messenger_cache,
     mutations |-> <<>>,
     messenger_tasks |-> <<>>,
     panicked |-> FALSE,
     trace |-> <<>>,
     composed |-> None]

has_friend(state, pk) == pk \in DOMAIN state.friends

has_slot(state, pk, channel_index) ==
    /\ has_friend(state, pk)
    /\ channel_index \in DOMAIN state.friends[pk].tc_slots

mutation_target_exists(state, m) ==
    /\ has_friend(state, m.pk)
    /\ m.fm.type = "SlotMutation" => has_slot(state, m.pk, m.fm.channel_index)

panic(h) == [h EXCEPT !.panicked = TRUE]

\* History of the event being handled (not program state): which branches
\* the handler took.
note(h, what) == [h EXCEPT !.trace = Append(@, what)]

\* History of the event being handled (not program state): the two queues of
\* the friend as the compose found them.
note_compose(h, remote_public_key, channel_index) ==
    [h EXCEPT !.composed =
        Some([pk |-> remote_public_key, channel_index |-> channel_index,
              pending_operations |->
                  h.state.friends[remote_public_key].tc_slots[channel_index]
                      .pending_operations,
              pending_requests |->
                  h.state.friends[remote_public_key].pending_requests])]

\* A variant of apply_mutation that changes the state and forgets the
\* mutation.
apply_mutation_unrecorded(h, messenger_mutation) ==
    IF h.panicked THEN h
    ELSE IF ~mutation_target_exists(h.state, messenger_mutation) THEN panic(h)
    ELSE [h EXCEPT !.state = mutate(@, messenger_mutation)]

\* Apply a mutation and also remember it.
apply_mutation(h, messenger_mutation) ==
    IF h.panicked THEN h
    ELSE IF ~mutation_target_exists(h.state, messenger_mutation) THEN panic(h)
    ELSE [h EXCEPT !.state = mutate(@, messenger_mutation),
                   !.mutations = Append(@, messenger_mutation)]

add_task(h, messenger_task) ==
    IF h.panicked THEN h
    ELSE [h EXCEPT !.messenger_tasks = Append(@, messenger_task)]

\* MutableMessengerHandler::done
done(h) ==
    [cache |-> h.cache, mutations |-> h.mutations,
     messenger_tasks |-> h.messenger_tasks]

(***************************************************************************)
(* handler/handle_friend.rs                                                *)
(***************************************************************************)
\* get_token_channel_slot; the caller checks has_slot first, where the code
\* panics with "Friend not found!" / "token_channel_slot not found!".
get_token_channel_slot(state, friend_public_key, channel_index) ==
    state.friends[friend_public_key].tc_slots[channel_index]

SetMin(S) == CHOOSE x \in S : \A y \in S : x <= y

\* Returns the first slot in which the request is NOT a pending remote
\* request (the is_none() test of the code).
find_token_channel_by_request_id(friend, request_id) ==
    LET hits == {ci \in DOMAIN friend.tc_slots :
                   request_id \notin DOMAIN
                     friend.tc_slots[ci].directional.token_channel
                         .pending_remote_requests}
    IN  IF hits = {} THEN None ELSE Some(SetMin(hits))

RECURSIVE find_request_origin_from(_, _, _)
find_request_origin_from(state, request_id, order) ==
    IF order = <<>> THEN None
    ELSE IF ~has_friend(state, Head(order))
    THEN find_request_origin_from(state, request_id, Tail(order))
    ELSE LET found == find_token_channel_by_request_id(
                          state.friends[Head(order)], request_id)
         IN  IF IsSome(found)
             THEN Some([pk |-> Head(order), channel_index |-> Unwrap(found)])
             ELSE find_request_origin_from(state, request_id, Tail(order))

\* find_request_origin: `order` is the order in which the friends map is
\* iterated.
find_request_origin(state, request_id, order) ==
    find_request_origin_from(state, request_id, order)

\* create_failure_message: a failure reported and signed by the local node.
create_failure_message(h, pending_local_request) ==
    [request_id |-> pending_local_request.request_id,
     reporting_public_key |-> h.state.local_public_key,
     rand_nonce_signatures |-> <<h.state.local_public_key>>]

\* failure_message_add_signature: the local node co-signs.
failure_message_add_signature(h, failure_send_msg, pending_local_request) ==
    [failure_send_msg EXCEPT
        !.rand_nonce_signatures = Append(@, h.state.local_public_key)]

FailureOp(failure_send_msg) ==
    [type |-> "FailureSendMessage", msg |-> failure_send_msg]

ResponseOp(response_send_msg) ==
    [type |-> "ResponseSendMessage", msg |-> response_send_msg]

RequestOp(request_send_msg) ==
    [type |-> "RequestSendMessage", msg |-> request_send_msg]

PushBackPendingOperation(pk, channel_index, op) ==
    SlotMut(pk, channel_index, [type |-> "PushBackPendingOperation", op |-> op])

RECURSIVE cancel_local_pending_loop(_, _, _, _)
\* The loop of cancel_local_pending_requests over the cloned table, in the
\* order of the request ids.
cancel_local_pending_loop(h, pending_local_requests, ids, order) ==
    IF ids = {} \/ h.panicked THEN h
    ELSE LET local_request_id == SetMin(ids)
             rest == ids \ {local_request_id}
         IN  With(find_request_origin(h.state, local_request_id, order),
                  LAMBDA origin :
             IF ~IsSome(origin)
             THEN cancel_local_pending_loop(h, pending_local_requests, rest, order)
             ELSE LET failure_send_msg == create_failure_message(
                          h, pending_local_requests[local_request_id])
                  IN  cancel_local_pending_loop(
                          apply_mutation(h,
                              PushBackPendingOperation(
                                  Unwrap(origin).pk, Unwrap(origin).channel_index,
                                  FailureOp(failure_send_msg))),
                          pending_local_requests, rest, order))

cancel_local_pending_requests(h, friend_public_key, channel_index, order) ==
    IF h.panicked THEN h
    ELSE IF ~has_slot(h.state, friend_public_key, channel_index) THEN panic(h)
    ELSE LET pending_local_requests ==
                 get_token_channel_slot(h.state, friend_public_key, channel_index)
                     .directional.token_channel.pending_local_requests
         IN  cancel_local_pending_loop(h, pending_local_requests,
                                       DOMAIN pending_local_requests, order)

\* Check if channel reset is required (remote side used the RESET token).
\* If so, reset the channel.
check_reset_channel(h, friend_public_key, channel_index, new_token, order) ==
    IF h.panicked THEN h
    ELSE IF ~has_slot(h.state, friend_public_key, channel_index) THEN panic(h)
    ELSE LET token_channel_slot ==
                 get_token_channel_slot(h.state, friend_public_key, channel_index)
             reset_token == calc_channel_reset_token(token_channel_slot.directional)
         IN  IF new_token = reset_token
             THEN apply_mutation(
                      cancel_local_pending_requests(note(h, "reset"),
                                                    friend_public_key,
                                                    channel_index, order),
                      SlotMut(friend_public_key, channel_index,
                              [type |-> "RemoteReset"]))
             ELSE h

CrypterMessage(kind, request_id, reporting_public_key) ==
    [task |-> "CrypterMessage", kind |-> kind, request_id |-> request_id,
     reporting_public_key |-> reporting_public_key]

punt_request_to_crypter(h, request_send_msg) ==
    add_task(h, CrypterMessage("RequestReceived", request_send_msg.request_id, "-"))

\* Reply to a request message with failure.
reply_with_failure(h, remote_public_key, channel_index, request_send_msg) ==
    IF h.panicked THEN h
    ELSE LET pending_request == create_pending_request(request_send_msg)
             failure_send_msg == create_failure_message(h, pending_request)
         IN  apply_mutation(h,
                 PushBackPendingOperation(remote_public_key, channel_index,
                                          FailureOp(failure_send_msg)))

RECURSIVE SumOver(_, _)
SumOver(f, S) ==
    IF S = {} THEN 0
    ELSE LET x == CHOOSE y \in S : TRUE IN f[x] + SumOver(f, S \ {x})

\* FriendState::get_trust: the credit the friend is trusted with, the
\* remote_max_debt of its token channels.
get_trust(friend) ==
    SumOver([ci \in DOMAIN friend.tc_slots |->
                 friend.tc_slots[ci].directional.token_channel.remote_max_debt],
            DOMAIN friend.tc_slots)

\* MessengerState::get_total_trust
get_total_trust(state) ==
    SumOver([pk \in DOMAIN state.friends |-> get_trust(state.friends[pk])],
            DOMAIN state.friends)

\* The index from which forward_request reads next_pk: the code reads
\* route.pk_by_index(prev_index).
forward_next_pk_index(prev_index, next_index) == prev_index

\* Forward a request message to the relevant friend and token channel.
forward_request(h, request_send_msg) ==
    IF h.panicked THEN h
    ELSE
    LET route == request_send_msg.route
        index == pk_index(route, h.state.local_public_key)
    IN  IF ~IsSome(index) THEN panic(h)
        ELSE IF Unwrap(index) - 1 < 0 THEN panic(h)
        ELSE
        LET prev_index == Unwrap(index) - 1
            next_index == Unwrap(index) + 1
            prev_pk == pk_by_index(route, prev_index)
            next_pk == pk_by_index(route, forward_next_pk_index(prev_index, next_index))
        IN  IF ~IsSome(prev_pk) \/ ~IsSome(next_pk) THEN panic(h)
            ELSE IF ~has_friend(h.state, Unwrap(prev_pk))
                    \/ ~has_friend(h.state, Unwrap(next_pk)) THEN panic(h)
            ELSE
            With(get_total_trust(h.state), LAMBDA total_trust :
            With(get_trust(h.state.friends[Unwrap(prev_pk)]), LAMBDA prev_trust :
            With(get_trust(h.state.friends[Unwrap(next_pk)]), LAMBDA forward_trust :
                \* BigUint division by zero
                IF total_trust - prev_trust = 0 THEN panic(h)
                ELSE
                With((TwoPow64 * forward_trust) \div (total_trust - prev_trust),
                     LAMBDA numerator :
                With(IF numerator < TwoPow64
                     THEN [one |-> FALSE, num |-> numerator]
                     ELSE [one |-> TRUE, num |-> 0],
                     LAMBDA usable_ratio :
                    apply_mutation(h,
                        FriendMut(Unwrap(next_pk),
                                  [type |-> "PushBackPendingRequest",
                                   req |-> [request_send_msg EXCEPT
                                       !.freeze_links =
                                           Append(@, [shared_credits |-> prev_trust,
                                                      usable_ratio |-> usable_ratio])]
                                  ])))))))

handle_request_send_msg(h, remote_public_key, channel_index, request_send_msg, env) ==
    IF h.panicked THEN h
    ELSE
    LET local_pk == h.state.local_public_key
    IN
    With([h EXCEPT !.cache.freeze_guard =
             add_frozen_credit(@, create_pending_request(request_send_msg),
                               local_pk)],
         LAMBDA h0 :
    With(find_pk_pair(request_send_msg.route, remote_public_key, local_pk),
         LAMBDA pk_pair :
        IF ~IsSome(pk_pair) THEN panic(h0)
        ELSE IF Unwrap(pk_pair).kind = "Dest"
        THEN punt_request_to_crypter(h0, request_send_msg)
        ELSE
        LET index == Unwrap(pk_pair).i + 1
            next_index == index + 1
            next_public_key == pk_by_index(request_send_msg.route, next_index)
        IN  IF ~IsSome(next_public_key) THEN panic(h0)
            ELSE
            With(IF ~has_friend(h0.state, Unwrap(next_public_key))
                 THEN reply_with_failure(h0, remote_public_key,
                                         channel_index, request_send_msg)
                 ELSE h0,
                 LAMBDA fself :
                \* Perform DoS protection check:
                IF verify_freezing_links(fself.cache.freeze_guard, request_send_msg)
                THEN forward_request(fself, request_send_msg)
                ELSE reply_with_failure(fself, remote_public_key, channel_index,
                                        request_send_msg))))

handle_response_send_msg(h, remote_public_key, channel_index, response_send_msg, pending_request, env) ==
    IF h.panicked THEN h
    ELSE
    With([h EXCEPT !.cache.freeze_guard =
             sub_frozen_credit(@, pending_request, h.state.local_public_key)],
         LAMBDA h0 :
    With(find_request_origin(h0.state, response_send_msg.request_id, env.order),
         LAMBDA origin :
        IF ~IsSome(origin)
        THEN add_task(h0, CrypterMessage("ResponseReceived",
                                         response_send_msg.request_id, "-"))
        ELSE apply_mutation(h0,
                 PushBackPendingOperation(Unwrap(origin).pk,
                                          Unwrap(origin).channel_index,
                                          ResponseOp(response_send_msg)))))

handle_failure_send_msg(h, remote_public_key, channel_index, failure_send_msg, pending_request, env) ==
    IF h.panicked THEN h
    ELSE
    With([h EXCEPT !.cache.freeze_guard =
             sub_frozen_credit(@, pending_request, h.state.local_public_key)],
         LAMBDA h0 :
    With(find_request_origin(h0.state, failure_send_msg.request_id, env.order),
         LAMBDA origin :
        IF ~IsSome(origin)
        THEN add_task(h0, CrypterMessage("FailureReceived",
                                         failure_send_msg.request_id,
                                         failure_send_msg.reporting_public_key))
        ELSE apply_mutation(h0,
                 PushBackPendingOperation(
                     Unwrap(origin).pk, Unwrap(origin).channel_index,
                     FailureOp(failure_message_add_signature(
                                   h0, failure_send_msg, pending_request))))))

RECURSIVE handle_move_token_output(_, _, _, _, _)
\* Process valid incoming operations from remote side.
handle_move_token_output(h, remote_public_key, channel_index, incoming_messages, env) ==
    IF incoming_messages = <<>> \/ h.panicked THEN h
    ELSE LET m == Head(incoming_messages)
         IN  handle_move_token_output(
                 CASE m.type = "Request" ->
                        handle_request_send_msg(h, remote_public_key,
                                                channel_index, m.msg, env)
                   [] m.type = "Response" ->
                        handle_response_send_msg(h, remote_public_key,
                                                 channel_index, m.msg,
                                                 m.pending_request, env)
                   [] m.type = "Failure" ->
                        handle_failure_send_msg(h, remote_public_key,
                                                channel_index, m.msg,
                                                m.pending_request, env)
                   [] OTHER -> h,
                 remote_public_key, channel_index, Tail(incoming_messages), env)

InconsistencyErrorMsg(opt_ack, channel_index, current_token, balance) ==
    [task |-> "FriendMessage", kind |-> "InconsistencyError",
     opt_ack |-> opt_ack, token_channel_index |-> channel_index,
     current_token |-> current_token, balance_for_reset |-> balance]

SetIncomingInconsistency(pk, channel_index, v) ==
    SlotMut(pk, channel_index, [type |-> "SetIncomingInconsistency", v |-> v])

SetOutgoingInconsistency(pk, channel_index, v) ==
    SlotMut(pk, channel_index, [type |-> "SetOutgoingInconsistency", v |-> v])

\* A variant of handle_move_token_error that gives the channel up as well: it
\* resets the channel on its own before it reports the error.
handle_move_token_error_resetting(h, remote_public_key, channel_index, receive_move_token_error) ==
    IF h.panicked THEN h
    ELSE
    apply_mutation(
        apply_mutation(
            add_task(apply_mutation(h, SlotMut(remote_public_key, channel_index,
                                               [type |-> "RemoteReset"])),
                     [task |-> "AppManagerMessage",
                      kind |-> "ReceiveMoveTokenError",
                      error |-> receive_move_token_error]),
            SetIncomingInconsistency(remote_public_key, channel_index, None)),
        SetOutgoingInconsistency(remote_public_key, channel_index, "Sent"))

\* Handle an error with incoming move token.
handle_move_token_error(h, remote_public_key, channel_index, receive_move_token_error) ==
    IF h.panicked THEN h
    ELSE
    \* Clear current incoming inconsistency messages:
    With(apply_mutation(
             add_task(h, [task |-> "AppManagerMessage",
                          kind |-> "ReceiveMoveTokenError",
                          error |-> receive_move_token_error]),
             SetIncomingInconsistency(remote_public_key, channel_index, None)),
         LAMBDA h2 :
        IF h2.panicked \/ ~has_slot(h2.state, remote_public_key, channel_index)
        THEN panic(h2)
        ELSE
        LET directional == get_token_channel_slot(h2.state, remote_public_key,
                                                  channel_index).directional
        IN  \* Keep outgoing InconsistencyError message details in memory:
            apply_mutation(
                add_task(h2,
                    InconsistencyErrorMsg(None, channel_index,
                                          calc_channel_reset_token(directional),
                                          balance_for_reset(directional))),
                SetOutgoingInconsistency(remote_public_key, channel_index, "Sent")))

(***************************************************************************)
(* OutgoingTokenChannel: a clone of the ledger on which the operations of  *)
(* the batch being composed are applied, within a length budget.           *)
(***************************************************************************)
\* The length of an operation on the wire, in bytes (a request carries its
\* route and content, a response or failure its signatures).
op_len(op) ==
    CASE op.type = "SetRemoteMaxDebt" -> 32
      [] op.type = "EnableRequests" -> 16
      [] op.type = "DisableRequests" -> 8
      [] op.type = "RequestSendMessage" -> 2048
      [] op.type = "ResponseSendMessage" -> 1536
      [] op.type = "FailureSendMessage" -> 1536
      [] OTHER -> 0

\* begin_outgoing_move_token: Some only when we hold the token.
begin_outgoing_move_token(directional, max_len) ==
    IF directional.direction = "Incoming"
    THEN Some([tc |-> directional.token_channel, operations |-> <<>>,
               tc_mutations |-> <<>>, len |-> 0, max_len |-> max_len])
    ELSE None

\* queue_operation: error "" for Ok(()).
queue_operation(out_tc, op, local_pk, remote_pk) ==
    IF out_tc.len + op_len(op) > out_tc.max_len
    THEN [error |-> "MaxLengthReached", out_tc |-> out_tc]
    ELSE IF ~outgoing_op_valid(out_tc.tc, op, local_pk, remote_pk)
    THEN [error |-> "OperationRefused", out_tc |-> out_tc]
    ELSE [error |-> "",
          out_tc |-> [out_tc EXCEPT
              !.tc = outgoing_op_apply(@, op, local_pk, remote_pk),
              !.operations = Append(@, op),
              !.tc_mutations = Append(@, [type |-> "TcMutation",
                                          side |-> "outgoing", op |-> op]),
              !.len = @ + op_len(op)]]

RECURSIVE queue_pending_operations(_, _, _, _, _)
\* Send pending operations (responses and failures): the loop over the
\* cloned queue; each queued operation is popped from the state.
queue_pending_operations(h, remote_public_key, channel_index, out_tc, pending_operations) ==
    IF pending_operations = <<>> \/ h.panicked
    THEN [h |-> h, out_tc |-> out_tc, error |-> ""]
    ELSE With(queue_operation(out_tc, Head(pending_operations),
                              h.state.local_public_key, remote_public_key),
              LAMBDA q :
             IF q.error /= ""
             THEN [h |-> h, out_tc |-> out_tc, error |-> q.error]
             ELSE queue_pending_operations(
                      apply_mutation(h, SlotMut(remote_public_key, channel_index,
                                         [type |-> "PopFrontPendingOperation"])),
                      remote_public_key, channel_index, q.out_tc,
                      Tail(pending_operations)))

\* A variant of queue_pending_requests that queues the first request and
\* leaves it in the queue of the friend.
queue_pending_requests_unpopped(h, remote_public_key, out_tc, pending_requests) ==
    IF pending_requests = <<>> \/ h.panicked
    THEN [h |-> h, out_tc |-> out_tc, error |-> ""]
    ELSE With(queue_operation(out_tc, RequestOp(Head(pending_requests)),
                              h.state.local_public_key, remote_public_key),
              LAMBDA q :
             IF q.error /= ""
             THEN [h |-> h, out_tc |-> out_tc, error |-> q.error]
             ELSE [h |-> h, out_tc |-> q.out_tc, error |-> ""])

RECURSIVE queue_pending_requests(_, _, _, _)
\* Send requests: the loop over the cloned queue of the friend.
queue_pending_requests(h, remote_public_key, out_tc, pending_requests) ==
    IF pending_requests = <<>> \/ h.panicked
    THEN [h |-> h, out_tc |-> out_tc, error |-> ""]
    ELSE With(queue_operation(out_tc, RequestOp(Head(pending_requests)),
                              h.state.local_public_key, remote_public_key),
              LAMBDA q :
             IF q.error /= ""
             THEN [h |-> h, out_tc |-> out_tc, error |-> q.error]
             ELSE queue_pending_requests(
                      apply_mutation(h, FriendMut(remote_public_key,
                                         [type |-> "PopFrontPendingRequest"])),
                      remote_public_key, q.out_tc, Tail(pending_requests)))

\* Queue as many messages as possible into available token channel.
queue_outgoing_operations(h, remote_public_key, channel_index, out_tc) ==
    LET local_pk == h.state.local_public_key
        tc_slot == get_token_channel_slot(h.state, remote_public_key, channel_index)
        tc == tc_slot.directional.token_channel
    IN
    \* Set remote_max_debt if needed:
    With(IF tc_slot.wanted_remote_max_debt /= tc.remote_max_debt
         THEN queue_operation(out_tc,
                  [type |-> "SetRemoteMaxDebt",
                   v |-> tc_slot.wanted_remote_max_debt],
                  local_pk, remote_public_key)
         ELSE [error |-> "", out_tc |-> out_tc],
         LAMBDA q1 :
    \* Set local_send_price if needed:
    With(IF q1.error /= "" THEN q1
         ELSE IF tc_slot.wanted_local_send_price /= tc.local_send_price
         THEN IF IsSome(tc_slot.wanted_local_send_price)
              THEN queue_operation(q1.out_tc,
                       [type |-> "EnableRequests",
                        v |-> Unwrap(tc_slot.wanted_local_send_price)],
                       local_pk, remote_public_key)
              ELSE queue_operation(q1.out_tc, [type |-> "DisableRequests"],
                                   local_pk, remote_public_key)
         ELSE q1,
         LAMBDA q2 :
        IF q2.error /= "" THEN [h |-> h, out_tc |-> q2.out_tc, error |-> q2.error]
        ELSE
        With(queue_pending_operations(h, remote_public_key, channel_index,
                                      q2.out_tc, tc_slot.pending_operations),
             LAMBDA q3 :
            IF q3.error /= "" \/ q3.h.panicked THEN q3
            ELSE queue_pending_requests(
                     q3.h, remote_public_key, q3.out_tc,
                     q3.h.state.friends[remote_public_key].pending_requests))))

RECURSIVE apply_mutations(_, _)
apply_mutations(h, messenger_mutations) ==
    IF messenger_mutations = <<>> THEN h
    ELSE apply_mutations(apply_mutation(h, Head(messenger_mutations)),
                         Tail(messenger_mutations))

\* The tokens a slot holds: rand values made for it are different from all.
slot_tokens(slot) ==
    {slot.directional.new_token}
      \cup {slot.directional.outgoing[i].old_token :
               i \in DOMAIN slot.directional.outgoing}
      \cup {slot.inconsistency_status.incoming[i].current_token :
               i \in DOMAIN slot.inconsistency_status.incoming}

\* A variant of outgoing_old_token that composes every move token over the
\* first token of the channel.
outgoing_old_token_first(token_channel_slot) == 0

\* The old_token of the move token being composed: the new_token of the
\* directional channel.
outgoing_old_token(token_channel_slot) ==
    token_channel_slot.directional.new_token

MoveTokenMsg(friend_move_token) ==
    [task |-> "FriendMessage", kind |-> "MoveToken", msg |-> friend_move_token]

\* A variant of nothing_to_send that never sends an empty move token.
nothing_to_send_when_none_composed(received_empty, operations) ==
    operations = <<>>

\* If we received an empty move token message, and we have nothing to send,
\* we do nothing.
nothing_to_send(received_empty, operations) ==
    received_empty /\ operations = <<>>

\* Compose a large as possible message to send through the token channel to
\* the remote side.  received_empty: is the move token message we have just
\* received empty?
send_through_token_channel(h, remote_public_key, channel_index, received_empty, env) ==
    IF h.panicked THEN h
    ELSE IF ~has_slot(h.state, remote_public_key, channel_index) THEN panic(h)
    ELSE
    LET token_channel_slot ==
            get_token_channel_slot(h.state, remote_public_key, channel_index)
        opt_out_tc == begin_outgoing_move_token(token_channel_slot.directional,
                                                MAX_MOVE_TOKEN_LENGTH)
    IN  IF ~IsSome(opt_out_tc) THEN panic(note(h, "ComposeNotIncoming"))
        ELSE
        With(queue_outgoing_operations(
                 note_compose(h, remote_public_key, channel_index),
                 remote_public_key, channel_index, Unwrap(opt_out_tc)),
             LAMBDA res :
            \* If we had a real error, we should panic.
            IF res.h.panicked THEN res.h
            ELSE IF res.error \notin {"", "MaxLengthReached"}
            THEN panic(note(res.h, "ComposeQueueError"))
            ELSE IF nothing_to_send(received_empty, res.out_tc.operations) THEN res.h
            ELSE
            With(apply_mutations(res.h,
                     [i \in DOMAIN res.out_tc.tc_mutations |->
                         DirectionalMut(remote_public_key, channel_index,
                                        res.out_tc.tc_mutations[i])]),
                 LAMBDA h1 :
            With(get_token_channel_slot(h1.state, remote_public_key, channel_index),
                 LAMBDA slot1 :
            With([operations |-> res.out_tc.operations,
                  old_token |-> outgoing_old_token(slot1),
                  rand_nonce |-> fresh_nonce(slot_tokens(slot1) \cup env.avoid)],
                 LAMBDA friend_move_token_inner :
            With(apply_mutation(h1,
                     DirectionalMut(remote_public_key, channel_index,
                         [type |-> "SetDirection", direction |-> "Outgoing",
                          new_token |->
                              calc_channel_next_token(friend_move_token_inner),
                          outgoing |-> Some(friend_move_token_inner)])),
                 LAMBDA h2 :
                \* Add a task for sending the outgoing move token:
                add_task(h2,
                    MoveTokenMsg(Unwrap(
                        get_outgoing_move_token(
                            get_token_channel_slot(h2.state, remote_public_key,
                                                   channel_index).directional,
                            channel_index)))))))))

\* Initiate loading funds for token channel, if needed.
initiate_load_funds(h, remote_public_key, channel_index, env) ==
    IF h.panicked THEN h
    ELSE IF ~has_slot(h.state, remote_public_key, channel_index) THEN panic(h)
    ELSE
    LET tc_slot == get_token_channel_slot(h.state, remote_public_key, channel_index)
        tc_balance == tc_slot.directional.token_channel
        span == tc_balance.remote_max_debt + tc_balance.local_max_debt
        left_dist == tc_balance.balance + tc_balance.local_max_debt
        dest_balance == TruncDiv((0 - tc_balance.local_max_debt)
                                    + tc_balance.remote_max_debt, 2)
        payment == dest_balance - tc_balance.balance
    IN  IF IsSome(tc_slot.opt_pending_send_funds_id) THEN h
        \* u64::try_from(balance + local_max_debt).unwrap()
        ELSE IF left_dist < 0 THEN panic(h)
        ELSE IF ~(left_dist < span \div 4) THEN h
        \* u64::try_from(dest_balance - balance).unwrap()
        ELSE IF payment < 0 THEN panic(h)
        ELSE apply_mutation(
                 add_task(h, [task |-> "SendPayment",
                              friend_public_key |-> remote_public_key,
                              channel_index |-> channel_index,
                              payment_id |-> env.payment_id,
                              payment |-> payment]),
                 SlotMut(remote_public_key, channel_index,
                         [type |-> "SetPendingSendFundsId",
                          v |-> Some(env.payment_id)]))

\* Clear all pending inconsistency errors if exist
clear_inconsistency_status(h, remote_public_key, channel_index) ==
    IF h.panicked THEN h
    ELSE IF ~has_slot(h.state, remote_public_key, channel_index) THEN panic(h)
    ELSE
    LET tc_slot == get_token_channel_slot(h.state, remote_public_key, channel_index)
    IN
    With(IF tc_slot.inconsistency_status.incoming = None THEN h
         ELSE apply_mutation(h, SetIncomingInconsistency(
                                    remote_public_key, channel_index, None)),
         LAMBDA h1 :
        IF tc_slot.inconsistency_status.outgoing = "Empty" THEN h1
        ELSE apply_mutation(h1, SetOutgoingInconsistency(
                                    remote_public_key, channel_index, "Empty")))

\* Handle success with incoming move token.
handle_move_token_success(h, remote_public_key, channel_index, receive_move_token_output, is_empty, env) ==
    With(clear_inconsistency_status(h, remote_public_key, channel_index),
         LAMBDA h0 :
        IF h0.panicked THEN h0
        ELSE
        CASE receive_move_token_output.kind = "Duplicate" -> h0
          [] receive_move_token_output.kind = "RetransmitOutgoing" ->
               \* Retransmit last sent token channel message:
               add_task(h0, MoveTokenMsg(Unwrap(get_outgoing_move_token(
                   get_token_channel_slot(h0.state, remote_public_key,
                                          channel_index).directional,
                   channel_index))))
          [] OTHER ->
               initiate_load_funds(
                   send_through_token_channel(
                       handle_move_token_output(
                           apply_mutations(h0,
                               [i \in DOMAIN receive_move_token_output.mutations |->
                                   DirectionalMut(remote_public_key, channel_index,
                                       receive_move_token_output.mutations[i])]),
                           remote_public_key, channel_index,
                           receive_move_token_output.incoming_messages, env),
                       remote_public_key, channel_index, is_empty, env),
                   remote_public_key, channel_index, env))

\* The reset check of handle_move_token, on the token the code passes to it:
\* friend_move_token.new_token.
reset_check_token(friend_move_token) == friend_move_token.new_token

handle_move_token(h, remote_public_key, friend_move_token, env) ==
    \* Find friend:
    IF ~has_friend(h.state, remote_public_key) THEN h
    ELSE
    LET friend == h.state.friends[remote_public_key]
        channel_index == friend_move_token.token_channel_index
    IN  IF channel_index >= friend.local_max_channels
        THEN \* Tell remote side that we don't support such a high token
             \* channel index:
             add_task(h, [task |-> "FriendMessage", kind |-> "SetMaxTokenChannels",
                          max_token_channels |-> friend.local_max_channels])
        ELSE IF ~has_slot(h.state, remote_public_key, channel_index) THEN panic(h)
        ELSE
        With(check_reset_channel(h, remote_public_key, channel_index,
                                 reset_check_token(friend_move_token), env.order),
             LAMBDA fself :
            IF fself.panicked THEN fself
            ELSE
            LET token_channel_slot ==
                    get_token_channel_slot(fself.state, remote_public_key,
                                           channel_index)
                is_empty == friend_move_token.operations = <<>>
                friend_move_token_inner ==
                    [operations |-> friend_move_token.operations,
                     old_token |-> friend_move_token.old_token,
                     rand_nonce |-> friend_move_token.rand_nonce]
            IN
            With(simulate_receive_move_token(
                     token_channel_slot.directional, friend_move_token_inner,
                     friend_move_token.new_token,
                     fself.state.local_public_key, remote_public_key),
                 LAMBDA receive_move_token_res :
                IF receive_move_token_res.ok
                THEN handle_move_token_success(
                         note(fself, receive_move_token_res.kind),
                         remote_public_key, channel_index,
                         receive_move_token_res, is_empty, env)
                ELSE handle_move_token_error(
                         note(fself, receive_move_token_res.kind),
                         remote_public_key, channel_index,
                         receive_move_token_res.kind)))

\* A variant of is_ack_valid that takes no acknowledgement for a valid one.
is_ack_valid_never(opt_ack, reset_token) == FALSE

\* A variant of is_ack_valid that takes any acknowledgement for a valid one.
is_ack_valid_any(opt_ack, reset_token) == IsSome(opt_ack)

\* Is the acknowledgement of an incoming InconsistencyError valid?
is_ack_valid(opt_ack, reset_token) ==
    IF IsSome(opt_ack) THEN Unwrap(opt_ack) = reset_token ELSE FALSE

handle_inconsistency_error(h, remote_public_key, friend_inconsistency_error) ==
    LET token_channel_index == friend_inconsistency_error.token_channel_index
        \* Save incoming inconsistency details:
        incoming == Some([current_token |->
                              friend_inconsistency_error.current_token,
                          balance_for_reset |->
                              friend_inconsistency_error.balance_for_reset])
    IN
    With(apply_mutation(h, SetIncomingInconsistency(
                               remote_public_key, token_channel_index, incoming)),
         LAMBDA h1 :
        IF h1.panicked \/ ~has_slot(h1.state, remote_public_key, token_channel_index)
        THEN panic(h1)
        ELSE
        \* Obtain information about our reset terms:
        LET tc_slot == get_token_channel_slot(h1.state, remote_public_key,
                                              token_channel_index)
            reset_token == calc_channel_reset_token(tc_slot.directional)
            balance == balance_for_reset(tc_slot.directional)
            outgoing == tc_slot.inconsistency_status.outgoing
            \* Check if we should send an outgoing inconsistency message:
            should_send_outgoing ==
                CASE outgoing = "Empty" -> TRUE
                  [] outgoing = "Sent" ->
                       ~is_ack_valid(friend_inconsistency_error.opt_ack, reset_token)
                  [] OTHER -> FALSE
        IN
        With(CASE outgoing = "Empty" ->
                    apply_mutation(h1, SetOutgoingInconsistency(
                        remote_public_key, token_channel_index, "Sent"))
               [] outgoing = "Sent"
                    /\ is_ack_valid(friend_inconsistency_error.opt_ack,
                                    reset_token) ->
                    apply_mutation(h1, SetOutgoingInconsistency(
                        remote_public_key, token_channel_index, "Acked"))
               [] OTHER -> h1,
             LAMBDA h2 :
            \* Send an outgoing inconsistency message if required:
            IF should_send_outgoing
            THEN add_task(h2, InconsistencyErrorMsg(
                     Some(friend_inconsistency_error.current_token),
                     token_channel_index, reset_token, balance))
            ELSE h2))

handle_set_max_token_channels(h, remote_public_key, friend_set_max_token_channels) ==
    apply_mutation(h, FriendMut(remote_public_key,
        [type |-> "SetRemoteMaxChannels",
         v |-> friend_set_max_token_channels.max_token_channels]))

handle_friend_message(h, remote_public_key, friend_message, env) ==
    CASE friend_message.kind = "MoveToken" ->
           handle_move_token(h, remote_public_key, friend_message.msg, env)
      [] friend_message.kind = "InconsistencyError" ->
           handle_inconsistency_error(h, remote_public_key, friend_message)
      [] friend_message.kind = "SetMaxTokenChannels" ->
           handle_set_max_token_channels(h, remote_public_key, friend_message)
      [] OTHER -> h

\* simulate_handle_timer_tick
simulate_handle_timer_tick(messenger_state, messenger_cache) ==
    panic(gen_mutable(messenger_state, messenger_cache))

\* MessengerHandler::simulate_handle_friend_message: handle the message on a
\* clone of the state; a panic yields nothing.
simulate_handle_friend_message(messenger_state, messenger_cache, remote_public_key, friend_message, env) ==
    handle_friend_message(gen_mutable(messenger_state, messenger_cache),
                          remote_public_key, friend_message, env)

(***************************************************************************)
(* The node.  One local node "L" with the friends "F" and "G", one token   *)
(* channel (index 0) with each; "X" is a node that is not a friend.  The   *)
(* friends and the application are the environment: every step is one      *)
(* event handled to completion.                                            *)
(*   messenger_state, messenger_cache  what the caller of the handler keeps *)
(*   last   the last event: who sent what, and what the handler returned   *)
(*          (history, for the properties)                                  *)
(*   app    the requests the application originated and how many results   *)
(*          were surfaced to it for each (history)                         *)
(***************************************************************************)
VARIABLES messenger_state, messenger_cache, last, app

node_vars == <<messenger_state, messenger_cache, last, app>>

\* The variables of the two peers (described where the peers are defined).
VARIABLES peers, wire, issued, pair_last

pair_vars == <<peers, wire, issued, pair_last>>

\* The variables of the funder at start-up (described with handle_init).
VARIABLES funder_state, init_last

init_vars == <<funder_state, init_last>>

\* The variables of the keep-alive channel (described with keepalive.rs).
VARIABLES ka, ka_wire, ka_hist

keepalive_vars == <<ka, ka_wire, ka_hist>>

base_vars == <<node_vars, pair_vars, init_vars, keepalive_vars>>

\* The variables of the overwrite channel (described with
\* overwrite_channel.rs).
VARIABLES ow, ow_up, ow_down

overwrite_vars == <<ow, ow_up, ow_down>>

\* The variables of the capacity graph (described with graph.rs).
VARIABLES cg, cg_last, cg_calls

graph_vars == <<cg, cg_last, cg_calls>>

\* The variables of the verifier of the index server (described with
\* verifier.rs).
VARIABLES verifier, vf_last, vf_seen

verifier_vars == <<verifier, vf_last, vf_seen>>

\* The handshake of the channeler (channel.rs, ChannelNew): the future, the
\* neighbors table behind the FutMutex, and what the future has done so far.
VARIABLES channel_new, cn_neighbors, cn_seen

handshake_vars == <<channel_new, cn_neighbors, cn_seen>>

\* An established channel of the channeler (channel.rs, Channel): the future,
\* the streams and sinks around it, and the frames it has accepted so far.
VARIABLES channel, ch_io, ch_seen

established_vars == <<channel, ch_io, ch_seen>>

channeler_vars == <<handshake_vars, established_vars>>

\* Two peers that exchange InconsistencyError messages only: their states,
\* the messages on their way, and what has happened since the start.
VARIABLES ic_peers, ic_wire, ic_seen

inconsistency_vars == <<ic_peers, ic_wire, ic_seen>>

\* Two keep-alive endpoints driven by one tick stream: the endpoint that has
\* processed the current tick while the other has not, and the ticks both
\* have processed.
VARIABLES ka_lockstep

lockstep_vars == <<ka_lockstep>>

\* The variables of the components described after the keep-alive channel.
ext_vars ==
    <<overwrite_vars, graph_vars, verifier_vars, channeler_vars, inconsistency_vars,
      lockstep_vars>>

\* What the actions of one component leave unchanged.
later_vars == <<channeler_vars, inconsistency_vars, lockstep_vars>>

other_than_overwrite == <<base_vars, graph_vars, verifier_vars, later_vars>>

other_than_graph == <<base_vars, overwrite_vars, verifier_vars, later_vars>>

other_than_verifier == <<base_vars, overwrite_vars, graph_vars, later_vars>>

first_ext_vars == <<overwrite_vars, graph_vars, verifier_vars>>

other_than_handshake ==
    <<base_vars, first_ext_vars, established_vars, inconsistency_vars, lockstep_vars>>

other_than_established ==
    <<base_vars, first_ext_vars, handshake_vars, inconsistency_vars, lockstep_vars>>

other_than_inconsistency == <<base_vars, first_ext_vars, channeler_vars, lockstep_vars>>

other_than_lockstep == <<first_ext_vars, channeler_vars, inconsistency_vars>>

LocalPk == "L"

Friends == {"F", "G"}

\* The friend whose messages are enumerated; the other friend is silent.
Senders == {"F"}

Stranger == "X"

OtherFriend(pk) == CHOOSE g \in Friends : g /= pk

\* The orders in which the friends map may be iterated.
FriendOrders == {<<"F", "G">>, <<"G", "F">>}

\* Bounds of the environment.
MaxLocalRequests == 1

MaxRemoteRequests == 1

MaxFrozen == 1

MaxTokenGen == 1

InitMaxDebt == 4

\* Request ids are random Uids: those made by the local application and those
\* made by other nodes do not collide.
LocalRequestIds == 1..MaxLocalRequests

RemoteRequestIds == {10 + i : i \in 1..MaxRemoteRequests}

\* TokenChannelSlot of a new friend; the side that has sent the first
\* (empty) move token.
new_slot ==
    [directional |->
        [direction |-> "Outgoing",
         new_token |-> 1,
         outgoing |-> Some([operations |-> <<>>, old_token |-> 0, rand_nonce |-> 1]),
         token_channel |-> new_token_channel(0, InitMaxDebt)],
     pending_operations |-> <<>>,
     wanted_remote_max_debt |-> InitMaxDebt,
     wanted_local_send_price |-> Some(1),
     inconsistency_status |-> [incoming |-> None, outgoing |-> "Empty"],
     opt_pending_send_funds_id |-> None]

new_friend ==
    [local_max_channels |-> LocalMaxChannels,
     remote_max_channels |-> LocalMaxChannels,
     pending_requests |-> <<>>,
     tc_slots |-> [ci \in 0..(LocalMaxChannels - 1) |-> new_slot]]

new_messenger_state(local_pk, friends) ==
    [local_public_key |-> local_pk,
     friends |-> [pk \in friends |-> new_friend]]

new_messenger_cache == [freeze_guard |-> <<>>]

NoEvent == [pk |-> "-", message |-> [kind |-> "None"]]

RECURSIVE mutate_all(_, _)
\* The caller applies the mutations the handler returned to its state.
mutate_all(state, messenger_mutations) ==
    IF messenger_mutations = <<>> THEN state
    ELSE mutate_all(mutate(state, Head(messenger_mutations)),
                    Tail(messenger_mutations))

\* The results surfaced to the application by a list of tasks, for request id.
surfaced_by(messenger_tasks, request_id) ==
    Cardinality({i \in DOMAIN messenger_tasks :
        /\ messenger_tasks[i].task = "CrypterMessage"
        /\ messenger_tasks[i].kind \in {"ResponseReceived", "FailureReceived"}
        /\ messenger_tasks[i].request_id = request_id})

\* What is kept of a finished handler: what it returns (done), whether it
\* panicked, the branches it took, the freeze guard and the state (its own
\* clone) it ended with.
outcome(h) ==
    [state |-> h.state,
     mutations |-> done(h).mutations,
     messenger_tasks |-> done(h).messenger_tasks,
     cache |-> done(h).cache,
     panicked |-> h.panicked,
     trace |-> h.trace,
     composed |-> h.composed]

NodeInit ==
    /\ messenger_state = new_messenger_state(LocalPk, Friends)
    /\ messenger_cache = new_messenger_cache
    /\ last = [event |-> NoEvent,
               h |-> outcome(gen_mutable(new_messenger_state(LocalPk, Friends),
                                         new_messenger_cache))]
    /\ app = [originated |-> {}, surfaced |-> [r \in LocalRequestIds |-> 0]]

\* A panic ends the process.
Running == ~last.h.panicked

\* One friend message handled to completion.
HandleFriendMessage(pk, message, env) ==
    \E h \in {simulate_handle_friend_message(messenger_state, messenger_cache,
                                            pk, message, env)} :
        /\ last' = [event |-> [pk |-> pk, message |-> message],
                    h |-> outcome(h)]
        /\ UNCHANGED <<pair_vars, init_vars, keepalive_vars, ext_vars>>
        /\ IF h.panicked
           THEN UNCHANGED <<messenger_state, messenger_cache, app>>
           ELSE /\ messenger_state' = mutate_all(messenger_state, done(h).mutations)
                /\ messenger_cache' = done(h).cache
                /\ app' = [app EXCEPT !.surfaced =
                              [r \in LocalRequestIds |->
                                  @[r] + surfaced_by(done(h).messenger_tasks, r)]]

(***************************************************************************)
(* What the environment may send, relative to the state of the node.       *)
(***************************************************************************)
Slot(pk) == get_token_channel_slot(messenger_state, pk, 0)

\* A token the friend makes with a nonce of its own.
FreshToken(pk) == fresh_nonce(slot_tokens(Slot(pk)))

\* The reset token of the friend's side of the channel, as it reports it.
TheirResetToken == 2 * TokenSpan - 1

RequestMsg(request_id, route, freeze_links) ==
    [request_id |-> request_id, route |-> route, dest_payment |-> 1,
     per_hop_fee |-> 1, freeze_links |-> freeze_links]

\* The freeze links a request arrives with: none, or one that allows nothing.
FreezeLinkChoices ==
    {<<>>, <<[shared_credits |-> 0, usable_ratio |-> [one |-> TRUE, num |-> 0]]>>}

\* The routes of the requests a friend sends us: we are the destination, the
\* next node is our other friend, the next node is not a friend of ours.
RoutesFrom(pk) ==
    {<<pk, LocalPk>>, <<pk, LocalPk, OtherFriend(pk)>>, <<pk, LocalPk, Stranger>>}

\* (The freeze links are read only when we are not the destination.)
RequestsFrom(pk) ==
    {RequestOp(RequestMsg(id, route, links)) :
        id \in RemoteRequestIds, route \in RoutesFrom(pk) \ {<<pk, LocalPk>>},
        links \in FreezeLinkChoices}
    \cup {RequestOp(RequestMsg(id, <<pk, LocalPk>>, <<>>)) : id \in RemoteRequestIds}

\* Answers to the requests we have pending with the friend: a response signed
\* by the destination, a failure reported by the friend.
AnswersFrom(pk) ==
    LET pending == Slot(pk).directional.token_channel.pending_local_requests
    IN  {ResponseOp([request_id |-> id,
                     signature |-> pending[id].route[Len(pending[id].route)]]) :
            id \in DOMAIN pending}
        \cup
        {FailureOp([request_id |-> id, reporting_public_key |-> pk,
                    rand_nonce_signatures |-> <<pk>>]) : id \in DOMAIN pending}

DebtChoices == {0}

\* An operation no ledger accepts: a response to a request nobody made.
BadOp == ResponseOp([request_id |-> 0, signature |-> Stranger])

\* The batches that carry no request and no answer: an empty one, a change
\* of our max debt, and the same followed by an operation that is refused.
ChannelBatches ==
    {<<>>}
    \cup {<<[type |-> "SetRemoteMaxDebt", v |-> v]>> : v \in DebtChoices}
    \cup {<<[type |-> "SetRemoteMaxDebt", v |-> v], BadOp>> : v \in DebtChoices}

\* The batches of operations a friend may send.
BatchesFrom(pk) ==
    ChannelBatches \cup {<<op>> : op \in RequestsFrom(pk) \cup AnswersFrom(pk)}

\* The freeze guard grows with every request received: the environment
\* stops sending requests once MaxFrozen credits are frozen.
FrozenWithin(operations) ==
    \A i \in DOMAIN operations :
        operations[i].type = "RequestSendMessage" =>
            SumOver(messenger_cache.freeze_guard,
                    DOMAIN messenger_cache.freeze_guard) < MaxFrozen

FriendMoveToken(channel_index, operations, old_token, new_token) ==
    [kind |-> "MoveToken",
     msg |-> [token_channel_index |-> channel_index,
              operations |-> operations,
              old_token |-> old_token,
              rand_nonce |-> new_token,
              new_token |-> new_token]]

\* What the handler does not decide: the iteration order of the friends map
\* and the values of the random number generator (rand values differ from
\* the tokens of the message at hand).
Envs(avoid) ==
    {[order |-> o, avoid |-> avoid, payment_id |-> 1] : o \in FriendOrders}

\* The friend continues the chain: a move token over our new_token.
ReceiveNextMoveToken(pk, operations) ==
    /\ Running
    /\ FrozenWithin(operations)
    /\ \E env \in Envs({Slot(pk).directional.new_token, FreshToken(pk)}) :
          HandleFriendMessage(pk,
              FriendMoveToken(0, operations, Slot(pk).directional.new_token,
                              FreshToken(pk)),
              env)

\* The move tokens off the chain, as pairs (old_token, new_token): a
\* repetition of the last one received, the one before our last one (the
\* friend missed ours), one that names our reset token, one over our reset
\* token, one over a token we never had.
\* (The tokens derived by a reset get longer with every reset in a row: the
\* friend names the reset token only up to generation MaxTokenGen.)
OtherTokenChoices(pk) ==
    LET d == Slot(pk).directional
        reset_token == calc_channel_reset_token(d)
    IN  {<<FreshToken(pk), d.new_token>>,
         <<reset_token, FreshToken(pk)>>,
         <<FreshToken(pk), FreshToken(pk)>>}
        \cup {<<FreshToken(pk), d.outgoing[i].old_token>> : i \in DOMAIN d.outgoing}
        \cup {<<FreshToken(pk), t>> : t \in {u \in {reset_token} :
                                                TokenGen(u) <= MaxTokenGen}}

ReceiveOtherMoveToken(pk, old_token, new_token) ==
    /\ Running
    /\ <<old_token, new_token>> \in OtherTokenChoices(pk)
    /\ \E env \in Envs({old_token, new_token}) :
          HandleFriendMessage(pk, FriendMoveToken(0, <<>>, old_token, new_token), env)

\* A move token from a node that is not a friend, or for a token channel
\* index we do not have.
ReceiveUnroutableMoveToken(pk) ==
    /\ Running
    /\ \E env \in Envs({}) :
          HandleFriendMessage(pk,
              FriendMoveToken(IF pk \in Friends THEN LocalMaxChannels ELSE 0,
                              <<>>, 0, 1),
              env)

\* The acknowledgements an inconsistency error may carry: none, our reset
\* token, another token.
AckChoices(pk) ==
    {None, Some(calc_channel_reset_token(Slot(pk).directional)),
     Some(FreshToken(pk))}

ReceiveInconsistencyError(pk, opt_ack, channel_index) ==
    /\ Running
    /\ opt_ack \in AckChoices(pk)
    /\ channel_index = LocalMaxChannels => opt_ack = None
    /\ \E env \in Envs({}) :
          HandleFriendMessage(pk,
              [kind |-> "InconsistencyError",
               opt_ack |-> opt_ack,
               token_channel_index |-> channel_index,
               current_token |-> TheirResetToken,
               balance_for_reset |-> 0],
              env)

ReceiveSetMaxTokenChannels(pk, max_token_channels) ==
    /\ Running
    /\ \E env \in Envs({}) :
          HandleFriendMessage(pk,
              [kind |-> "SetMaxTokenChannels",
               max_token_channels |-> max_token_channels],
              env)

\* The routes of the requests the application originates through a friend.
LocalRoutes(pk) == {<<LocalPk, pk, Stranger>>}

\* The application originates a request: it is queued for the first friend
\* of its route, to be sent with the next move token.
OriginateRequest(request_id, pk, route) ==
    /\ Running
    /\ request_id \notin app.originated
    /\ route \in LocalRoutes(pk)
    /\ messenger_state' =
           mutate(messenger_state,
                  FriendMut(pk, [type |-> "PushBackPendingRequest",
                                 req |-> RequestMsg(request_id, route, <<>>)]))
    /\ app' = [app EXCEPT !.originated = @ \cup {request_id}]
    /\ UNCHANGED <<messenger_cache, last>>
    /\ UNCHANGED <<pair_vars, init_vars, keepalive_vars, ext_vars>>

NodeNext ==
    \/ \E pk \in Senders : \E operations \in BatchesFrom(pk) :
          ReceiveNextMoveToken(pk, operations)
    \/ \E pk \in Senders :
          \E choice \in OtherTokenChoices(pk) :
             ReceiveOtherMoveToken(pk, choice[1], choice[2])
    \/ \E pk \in Senders \cup {Stranger} : ReceiveUnroutableMoveToken(pk)
    \/ \E pk \in Senders, channel_index \in 0..LocalMaxChannels :
          \E opt_ack \in AckChoices(pk) :
             ReceiveInconsistencyError(pk, opt_ack, channel_index)
    \/ \E pk \in Senders, v \in {LocalMaxChannels} :
          ReceiveSetMaxTokenChannels(pk, v)
    \/ \E request_id \in LocalRequestIds, pk \in Senders :
          \E route \in LocalRoutes(pk) :
             OriginateRequest(request_id, pk, route)

(***************************************************************************)
(* Two peers, each the only friend of the other, and the messages between  *)
(* them.                                                                   *)
(*   peers[p]  the state and cache of peer p, and whether it panicked      *)
(*   wire[p]   the messages on their way to peer p, in order               *)
(*   issued    every move token composed so far, with its composer         *)
(*             (history)                                                   *)
(*   pair_last the step taken last: the peer, and what its handler         *)
(*             returned (history)                                          *)
(***************************************************************************)
PairPeers == {"A", "B"}

Peer(p) == CHOOSE q \in PairPeers : q /= p

\* The most messages on their way when the application or the network adds
\* one more.
MaxInFlight == 2

\* The peer that starts with the token: it has received the first (empty)
\* move token of the other.
received_first_slot ==
    [new_slot EXCEPT !.directional.direction = "Incoming",
                     !.directional.outgoing = None]

PairInit ==
    /\ peers = [p \in PairPeers |->
                  [state |-> [local_public_key |-> p,
                              friends |-> (Peer(p) :> [new_friend EXCEPT
                                  !.tc_slots[0] = IF p = "A" THEN new_slot
                                                  ELSE received_first_slot])],
                   cache |-> new_messenger_cache,
                   panicked |-> FALSE]]
    /\ wire = [p \in PairPeers |-> <<>>]
    /\ issued = {[by |-> "A", inner |-> Unwrap(new_slot.directional.outgoing)]}
    /\ pair_last = [peer |-> "-", received |-> NoEvent.message,
                    h |-> outcome(gen_mutable(new_messenger_state("-", {}),
                                              new_messenger_cache))]

PairSlot(p) == get_token_channel_slot(peers[p].state, Peer(p), 0)

\* Every token a move token was composed with.
IssuedTokens ==
    {m.inner.old_token : m \in issued} \cup {m.inner.rand_nonce : m \in issued}

\* Is there a nonce left that names no token used so far?
NonceLeft ==
    \E n \in 0..(TokenSpan - 1) : n \notin {TokenId(t) : t \in IssuedTokens}

PairEnv(p) == [order |-> <<Peer(p)>>, avoid |-> IssuedTokens, payment_id |-> 1]

\* The move tokens a handler composed: its SetDirection(Outgoing) mutations.
composed_by(h) ==
    {Unwrap(h.mutations[i].fm.sm.dm.outgoing) :
        i \in {j \in DOMAIN h.mutations :
                  /\ h.mutations[j].fm.type = "SlotMutation"
                  /\ h.mutations[j].fm.sm.type = "DirectionalMutation"
                  /\ h.mutations[j].fm.sm.dm.type = "SetDirection"
                  /\ h.mutations[j].fm.sm.dm.direction = "Outgoing"}}

\* The messages for the friend among the tasks of a handler.
friend_messages(messenger_tasks) ==
    SelectSeq(messenger_tasks, LAMBDA t : t.task = "FriendMessage")

\* The message of a FriendMessage task, as the friend receives it.
as_received(t) ==
    IF t.kind = "MoveToken" THEN [kind |-> "MoveToken", msg |-> t.msg]
    ELSE [kind |-> t.kind, opt_ack |-> t.opt_ack,
          token_channel_index |-> t.token_channel_index,
          current_token |-> t.current_token,
          balance_for_reset |-> t.balance_for_reset]

\* Peer p finishes a handler: its mutations are applied, its messages are
\* sent; a panic ends p.
PairCommit(p, received, h, rest_of_wire) ==
    /\ pair_last' = [peer |-> p, received |-> received, h |-> outcome(h)]
    /\ IF h.panicked
       THEN /\ peers' = [peers EXCEPT ![p].panicked = TRUE]
            /\ wire' = [wire EXCEPT ![p] = rest_of_wire]
            /\ UNCHANGED issued
       ELSE /\ peers' = [peers EXCEPT
                  ![p].state = mutate_all(@, done(h).mutations),
                  ![p].cache = done(h).cache]
            /\ wire' = [q \in PairPeers |->
                  IF q = p THEN rest_of_wire
                  ELSE wire[q] \o
                       [i \in DOMAIN friend_messages(done(h).messenger_tasks) |->
                           as_received(friend_messages(done(h).messenger_tasks)[i])]]
            /\ issued' = issued \cup {[by |-> p, inner |-> m] : m \in composed_by(h)}
    /\ UNCHANGED <<node_vars, init_vars, keepalive_vars, ext_vars>>

\* The messages on their way, both directions.
InFlight == Len(wire["A"]) + Len(wire["B"])

\* The ids of the requests the two applications have originated so far.
PairKnownIds ==
    UNION {
        {PairSlot(p).directional.token_channel.pending_local_requests[i].request_id :
            i \in DOMAIN PairSlot(p).directional.token_channel.pending_local_requests}
        \cup
        {PairSlot(p).directional.token_channel.pending_remote_requests[i].request_id :
            i \in DOMAIN PairSlot(p).directional.token_channel.pending_remote_requests}
        \cup
        {peers[p].state.friends[Peer(p)].pending_requests[i].request_id :
            i \in DOMAIN peers[p].state.friends[Peer(p)].pending_requests}
        : p \in PairPeers}

\* The application of p originates a request for its friend: it is queued
\* to be sent with the next move token.
PairOriginate(p, request_id) ==
    /\ ~peers[p].panicked
    /\ request_id \notin PairKnownIds
    /\ peers[p].state.friends[Peer(p)].pending_requests = <<>>
    /\ \E h \in {apply_mutation(gen_mutable(peers[p].state, peers[p].cache),
                    FriendMut(Peer(p),
                        [type |-> "PushBackPendingRequest",
                         req |-> RequestMsg(request_id, <<p, Peer(p)>>, <<>>)]))} :
          PairCommit(p, [kind |-> "Originate"], h, wire[p])

\* Peer p holds the token and has something queued: it composes a move
\* token.
PairSend(p) ==
    /\ ~peers[p].panicked
    /\ NonceLeft
    /\ PairSlot(p).directional.direction = "Incoming"
    /\ \/ peers[p].state.friends[Peer(p)].pending_requests /= <<>>
       \/ PairSlot(p).pending_operations /= <<>>
    /\ \E h \in {send_through_token_channel(
                    gen_mutable(peers[p].state, peers[p].cache),
                    Peer(p), 0, TRUE, PairEnv(p))} :
          PairCommit(p, [kind |-> "Send"], h, wire[p])

\* The first message on its way to p arrives and is handled to completion.
PairDeliver(p) ==
    /\ ~peers[p].panicked
    /\ NonceLeft
    /\ wire[p] /= <<>>
    /\ \E h \in {simulate_handle_friend_message(peers[p].state, peers[p].cache,
                    Peer(p), Head(wire[p]), PairEnv(p))} :
          PairCommit(p, Head(wire[p]), h, Tail(wire[p]))

\* The transport delivers a move token of the friend once more.
PairRedeliver(p, m) ==
    /\ ~peers[p].panicked
    /\ NonceLeft
    /\ InFlight < MaxInFlight
    /\ m \in issued
    /\ m.by = Peer(p)
    /\ \E received \in {FriendMoveToken(0, m.inner.operations, m.inner.old_token,
                                        calc_channel_next_token(m.inner))} :
       \E h \in {simulate_handle_friend_message(peers[p].state, peers[p].cache,
                    Peer(p), received, PairEnv(p))} :
          PairCommit(p, received, h, wire[p])

\* The timer of p ticks.
PairTimerTick(p) ==
    /\ ~peers[p].panicked
    /\ \E h \in {simulate_handle_timer_tick(peers[p].state, peers[p].cache)} :
          PairCommit(p, [kind |-> "TimerTick"], h, wire[p])

PairNext ==
    \/ \E p \in PairPeers, request_id \in LocalRequestIds :
          PairOriginate(p, request_id)
    \/ \E p \in PairPeers : PairSend(p)
    \/ \E p \in PairPeers : PairDeliver(p)
    \/ \E p \in PairPeers : \E m \in issued : PairRedeliver(p, m)
    \/ \E p \in PairPeers : PairTimerTick(p)

\* The node with a friend that sends no request and no answer: the token
\* chain, the inconsistency protocol, and the requests of the application.
ChannelNext ==
    \/ \E pk \in Senders : \E operations \in ChannelBatches :
          ReceiveNextMoveToken(pk, operations)
    \/ \E pk \in Senders :
          \E choice \in OtherTokenChoices(pk) :
             ReceiveOtherMoveToken(pk, choice[1], choice[2])
    \/ \E pk \in Senders, channel_index \in 0..LocalMaxChannels :
          \E opt_ack \in AckChoices(pk) :
             ReceiveInconsistencyError(pk, opt_ack, channel_index)
    \/ \E request_id \in LocalRequestIds, pk \in Senders :
          \E route \in LocalRoutes(pk) :
             OriginateRequest(request_id, pk, route)

(***************************************************************************)
(* The funder at start-up (components/funder/src/handler/handle_init.rs).  *)
(***************************************************************************)
FunderFriends == {"F", "G", "H"}

FunderAddresses == {"a1", "a2"}

\* A variant of is_enabled for which every friend is enabled.
is_enabled_any(friend) == TRUE

\* match friend.status: FriendStatus::Enable is collected,
\* FriendStatus::Disable is skipped.
is_enabled(friend) == friend.status = "Enable"

\* FunderOutgoingComm::ChannelerConfig(ChannelerConfig::AddFriend(..))
ChannelerConfigAddFriend(enabled_friend) ==
    [comm |-> "ChannelerConfig", config |-> "AddFriend",
     friend_public_key |-> enabled_friend[1], address |-> enabled_friend[2]]

\* MutableFunderHandler: the state, the mutations and the outgoing
\* communications of the event being handled.
gen_mutable_funder(state) ==
    [state |-> state, mutations |-> <<>>, outgoing_comms |-> <<>>]

add_outgoing_comm(h, outgoing_comm) ==
    [h EXCEPT !.outgoing_comms = Append(@, outgoing_comm)]

RECURSIVE collect_enabled_friends(_, _, _)
\* The first loop of handle_init: `order` is the order in which the friends
\* map is iterated.
collect_enabled_friends(state, order, enabled_friends) ==
    IF order = <<>> THEN enabled_friends
    ELSE collect_enabled_friends(
             state, Tail(order),
             IF is_enabled(state.friends[Head(order)])
             THEN Append(enabled_friends,
                         <<state.friends[Head(order)].remote_public_key,
                           state.friends[Head(order)].remote_address>>)
             ELSE enabled_friends)

RECURSIVE notify_channeler(_, _)
\* The second loop of handle_init.
notify_channeler(h, enabled_friends) ==
    IF enabled_friends = <<>> THEN h
    ELSE notify_channeler(
             add_outgoing_comm(h, ChannelerConfigAddFriend(Head(enabled_friends))),
             Tail(enabled_friends))

handle_init(h, order) ==
    notify_channeler(h, collect_enabled_friends(h.state, order, <<>>))

\* FunderMutation::AddFriend and the change of a friend's status, as earlier
\* events left them in the state.
funder_mutate(state, funder_mutation) ==
    CASE funder_mutation.type = "AddFriend" ->
            [state EXCEPT !.friends =
                MapPut(@, funder_mutation.friend_public_key,
                       [remote_public_key |-> funder_mutation.friend_public_key,
                        remote_address |-> funder_mutation.address,
                        status |-> "Disable"])]
      [] funder_mutation.type = "SetFriendStatus" ->
            [state EXCEPT !.friends[funder_mutation.friend_public_key].status =
                funder_mutation.status]
      [] OTHER -> state

RECURSIVE funder_mutate_all(_, _)
funder_mutate_all(state, funder_mutations) ==
    IF funder_mutations = <<>> THEN state
    ELSE funder_mutate_all(funder_mutate(state, Head(funder_mutations)),
                           Tail(funder_mutations))

\* The orders in which a map with these keys may be iterated.
IterationOrders(keys) ==
    {order \in [1..Cardinality(keys) -> keys] :
        \A i, j \in DOMAIN order : order[i] = order[j] => i = j}

FunderInit ==
    /\ funder_state = [local_public_key |-> LocalPk, friends |-> <<>>]
    /\ init_last = [ran |-> FALSE, given |-> [local_public_key |-> LocalPk,
                                              friends |-> <<>>],
                    h |-> gen_mutable_funder([local_public_key |-> LocalPk,
                                              friends |-> <<>>])]

\* An earlier event added a friend.
FunderAddFriend(pk, address) ==
    /\ pk \notin DOMAIN funder_state.friends
    /\ funder_state' = funder_mutate(funder_state,
                           [type |-> "AddFriend", friend_public_key |-> pk,
                            address |-> address])
    /\ UNCHANGED <<init_last, node_vars, pair_vars, keepalive_vars, ext_vars>>

\* An earlier event enabled or disabled a friend.
FunderSetFriendStatus(pk, status) ==
    /\ pk \in DOMAIN funder_state.friends
    /\ funder_state.friends[pk].status /= status
    /\ funder_state' = funder_mutate(funder_state,
                           [type |-> "SetFriendStatus", friend_public_key |-> pk,
                            status |-> status])
    /\ UNCHANGED <<init_last, node_vars, pair_vars, keepalive_vars, ext_vars>>

\* The funder starts: handle_init runs on the state, the caller applies the
\* mutations it returns.
HandleInit(order) ==
    /\ \E h \in {handle_init(gen_mutable_funder(funder_state), order)} :
          /\ init_last' = [ran |-> TRUE, given |-> funder_state, h |-> h]
          /\ funder_state' = funder_mutate_all(funder_state, h.mutations)
    /\ UNCHANGED <<node_vars, pair_vars, keepalive_vars, ext_vars>>

InitNext ==
    \/ \E pk \in FunderFriends, address \in FunderAddresses :
          FunderAddFriend(pk, address)
    \/ \E pk \in FunderFriends, status \in {"Enable", "Disable"} :
          FunderSetFriendStatus(pk, status)
    \/ \E order \in IterationOrders(DOMAIN funder_state.friends) :
          HandleInit(order)

(***************************************************************************)
(* The keep-alive channel (components/keepalive/src/keepalive.rs).         *)
(***************************************************************************)
\* Bounds of the environment of the keep-alive loop: the messages a user
\* sends, the frames the remote sends to an endpoint that runs alone, the
\* frames a channel between two endpoints holds (a sender blocks on a full
\* channel).
MaxUserMessages == 2

WireCap == 1

MaxRemoteFrames == 2

\* The periods (keepalive_ticks) an endpoint that runs alone is started with,
\* and those of two endpoints connected back to back.
KeepAlivePeriods == {1, 2, 3, 5, 16}

BackToBackPeriods == {2, 3}

\* The payloads users send: byte strings, the i-th message of a user
\* different from its earlier ones.
UserPayload(i) == <<i - 1>>

KaPayloads == {UserPayload(i) : i \in 1..MaxUserMessages}

\* KaMessage
KaKeepAlive == [kind |-> "KeepAlive"]

KaMessage(message) == [kind |-> "Message", message |-> message]

\* serialize_ka_message: one byte for the kind of the frame, then the
\* payload.
serialize_ka_message(ka_message) ==
    IF ka_message.kind = "KeepAlive" THEN <<0>>
    ELSE <<1>> \o ka_message.message

\* A variant of deserialize_ka_message that reads a KeepAlive frame as a
\* message with an empty payload.
deserialize_ka_message_as_message(ser_ka_message) ==
    IF ser_ka_message = <<0>> THEN Some(KaMessage(<<>>))
    ELSE IF ser_ka_message /= <<>> /\ Head(ser_ka_message) = 1
    THEN Some(KaMessage(Tail(ser_ka_message)))
    ELSE None

\* deserialize_ka_message: None for Err(..).
deserialize_ka_message(ser_ka_message) ==
    IF ser_ka_message = <<0>> THEN Some(KaKeepAlive)
    ELSE IF ser_ka_message /= <<>> /\ Head(ser_ka_message) = 1
    THEN Some(KaMessage(Tail(ser_ka_message)))
    ELSE None

\* A frame no endpoint sends.
GarbageFrame == <<7>>

\* usize::saturating_sub
saturating_sub(a, b) == IF a >= b THEN a - b ELSE 0

\* A variant of remote_timed_out that closes one tick early.
remote_timed_out_early(ticks_to_close) == ticks_to_close <= 1

\* if ticks_to_close == 0 { return Err(KeepAliveError::RemoteTimeout) }
remote_timed_out(ticks_to_close) == ticks_to_close = 0

\* A variant of keepalive_due that never sends a keep-alive.
keepalive_due_never(before, ticks_to_send_keepalive) == FALSE

\* A variant of keepalive_due that sends a keep-alive one tick late.
keepalive_due_late(before, ticks_to_send_keepalive) == before = 0

\* if ticks_to_send_keepalive == 0 { send KaMessage::KeepAlive }; `before`
\* is the value before the tick.
keepalive_due(before, ticks_to_send_keepalive) == ticks_to_send_keepalive = 0

\* The loop is started: the two counters before the first event.
new_keepalive_loop(keepalive_ticks) ==
    [started |-> TRUE, keepalive_ticks |-> keepalive_ticks, result |-> "",
     user_open |-> TRUE,
     ticks_to_close |-> keepalive_ticks,
     ticks_to_send_keepalive |-> keepalive_ticks \div 2]

not_started == [started |-> FALSE, keepalive_ticks |-> 0, result |-> "",
                user_open |-> TRUE,
                ticks_to_close |-> 0, ticks_to_send_keepalive |-> 0]

\* What an event makes the loop do: its state afterwards, what it sends to
\* the remote and to the user.  result: "" while the loop runs, "Ok" after a
\* break, the KeepAliveError otherwise.
ka_done(loop, to_remote, to_user) ==
    [loop |-> loop, to_remote |-> to_remote, to_user |-> to_user]

ka_return(loop, result) == ka_done([loop EXCEPT !.result = result], <<>>, <<>>)

on_message_from_remote(loop, ser_ka_message, remote_open) ==
    With(deserialize_ka_message(ser_ka_message), LAMBDA ka_message :
        IF ~IsSome(ka_message) THEN ka_return(loop, "DeserializeError")
        ELSE With([loop EXCEPT !.ticks_to_close = loop.keepalive_ticks],
                  LAMBDA loop1 :
            IF Unwrap(ka_message).kind = "Message"
            THEN IF ~loop.user_open THEN ka_return(loop1, "SendToUserError")
                 ELSE ka_done(loop1, <<>>, <<Unwrap(ka_message).message>>)
            ELSE ka_done(loop1, <<>>, <<>>)))

on_message_from_user(loop, message, remote_open) ==
    IF ~remote_open THEN ka_return(loop, "SendToRemoteError")
    ELSE ka_done([loop EXCEPT !.ticks_to_send_keepalive =
                                  loop.keepalive_ticks \div 2],
                 <<serialize_ka_message(KaMessage(message))>>, <<>>)

on_timer_tick(loop, remote_open) ==
    With([loop EXCEPT
              !.ticks_to_close = saturating_sub(@, 1),
              !.ticks_to_send_keepalive = saturating_sub(@, 1)],
         LAMBDA loop1 :
        IF remote_timed_out(loop1.ticks_to_close)
        THEN ka_return(loop1, "RemoteTimeout")
        ELSE IF keepalive_due(loop.ticks_to_send_keepalive,
                              loop1.ticks_to_send_keepalive)
        THEN IF ~remote_open THEN ka_return(loop1, "SendToRemoteError")
             ELSE ka_done([loop1 EXCEPT !.ticks_to_send_keepalive =
                                            loop.keepalive_ticks \div 2],
                          <<serialize_ka_message(KaKeepAlive)>>, <<>>)
        ELSE ka_done(loop1, <<>>, <<>>))

\* One turn of the loop of inner_keepalive_loop.
inner_keepalive_loop(loop, event, remote_open) ==
    CASE event.kind = "MessageFromRemote" ->
            on_message_from_remote(loop, event.bytes, remote_open)
      [] event.kind = "MessageFromUser" ->
            on_message_from_user(loop, event.bytes, remote_open)
      [] event.kind = "TimerTick" -> on_timer_tick(loop, remote_open)
      [] event.kind = "TimerClosed" -> ka_return(loop, "TimerClosed")
      [] OTHER -> ka_return(loop, "Ok")

KaEvent(kind, bytes) == [kind |-> kind, bytes |-> bytes]

new_ka_hist ==
    [sent |-> <<>>, delivered |-> <<>>,
     silence |-> 0, idle |-> 0, remote_frames |-> 0]

KeepAliveInit ==
    /\ ka = [p \in PairPeers |-> not_started]
    /\ ka_wire = [p \in PairPeers |-> <<>>]
    /\ ka_hist = [p \in PairPeers |-> new_ka_hist]

KaRunning(p) == ka[p].started /\ ka[p].result = ""

\* The other end takes frames: the remote endpoint's loop runs, or, for an
\* endpoint that runs alone, the remote has not closed.
KaRemoteOpen(p) == ka[Peer(p)].result = ""

\* keepalive_channel: endpoint A is started alone; the remote is the
\* environment.
KaStart(keepalive_ticks) ==
    /\ \A p \in PairPeers : ~ka[p].started
    /\ ka' = [ka EXCEPT !["A"] = new_keepalive_loop(keepalive_ticks)]
    /\ UNCHANGED <<ka_wire, ka_hist, node_vars, pair_vars, init_vars, ext_vars>>

\* Two endpoints are started back to back.
KaStartBackToBack(keepalive_ticks) ==
    /\ \A p \in PairPeers : ~ka[p].started
    /\ ka' = [p \in PairPeers |-> new_keepalive_loop(keepalive_ticks)]
    /\ UNCHANGED <<ka_wire, ka_hist, node_vars, pair_vars, init_vars, ext_vars>>

\* The loop of p takes one event; `rest` is what is left on its way to p.
KaLoopTurn(p, event, rest) ==
    /\ KaRunning(p)
    /\ \E out \in {inner_keepalive_loop(ka[p], event, KaRemoteOpen(p))} :
          /\ out.to_remote /= <<>> => Len(ka_wire[Peer(p)]) < WireCap
          /\ ka' = [ka EXCEPT ![p] = out.loop]
          /\ ka_wire' = [q \in PairPeers |->
                            IF q = p THEN rest ELSE ka_wire[q] \o out.to_remote]
          /\ ka_hist' = [ka_hist EXCEPT
                ![p].sent = IF event.kind = "MessageFromUser"
                            THEN Append(@, event.bytes) ELSE @,
                ![p].delivered = @ \o out.to_user,
                ![p].silence = IF event.kind = "MessageFromRemote" THEN 0
                               ELSE IF event.kind = "TimerTick" THEN @ + 1 ELSE @,
                ![p].idle = IF out.to_remote /= <<>> THEN 0
                            ELSE IF event.kind = "TimerTick" THEN @ + 1 ELSE @]

KaTurn(p, event, rest) ==
    /\ KaLoopTurn(p, event, rest)
    /\ UNCHANGED <<node_vars, pair_vars, init_vars, ext_vars>>

KaTimerTick(p) == KaTurn(p, KaEvent("TimerTick", <<>>), ka_wire[p])

KaTimerClosed(p) == KaTurn(p, KaEvent("TimerClosed", <<>>), ka_wire[p])

KaMessageFromRemote(p) ==
    /\ ka_wire[p] /= <<>>
    /\ KaTurn(p, KaEvent("MessageFromRemote", Head(ka_wire[p])), Tail(ka_wire[p]))

KaRemoteChannelClosed(p) ==
    /\ ka_wire[p] = <<>>
    /\ ~KaRemoteOpen(p)
    /\ KaTurn(p, KaEvent("RemoteChannelClosed", <<>>), ka_wire[p])

KaMessageFromUser(p) ==
    /\ ka[p].user_open
    /\ Len(ka_hist[p].sent) < MaxUserMessages
    /\ KaTurn(p, KaEvent("MessageFromUser", UserPayload(Len(ka_hist[p].sent) + 1)), ka_wire[p])

KaUserChannelClosed(p) ==
    /\ ~ka[p].user_open
    /\ KaTurn(p, KaEvent("UserChannelClosed", <<>>), ka_wire[p])

\* The user of p drops its ends of the channel.
KaUserCloses(p) ==
    /\ KaRunning(p)
    /\ ka[p].user_open
    /\ ka' = [ka EXCEPT ![p].user_open = FALSE]
    /\ UNCHANGED <<ka_wire, ka_hist, node_vars, pair_vars, init_vars, ext_vars>>

\* The remote of an endpoint that runs alone sends it a frame, takes a frame
\* from it, or closes.
KaRemoteSends(p, ser_ka_message) ==
    /\ KaRunning(p)
    /\ ~ka[Peer(p)].started
    /\ KaRemoteOpen(p)
    /\ ka_hist[p].remote_frames < MaxRemoteFrames
    /\ Len(ka_wire[p]) < WireCap
    /\ ka_wire' = [ka_wire EXCEPT ![p] = Append(@, ser_ka_message)]
    /\ ka_hist' = [ka_hist EXCEPT ![p].remote_frames = @ + 1]
    /\ UNCHANGED <<ka, node_vars, pair_vars, init_vars, ext_vars>>

KaRemoteTakes(p) ==
    /\ ka[p].started
    /\ ~ka[Peer(p)].started
    /\ ka_wire[Peer(p)] /= <<>>
    /\ ka_wire' = [ka_wire EXCEPT ![Peer(p)] = Tail(@)]
    /\ UNCHANGED <<ka, ka_hist, node_vars, pair_vars, init_vars, ext_vars>>

KaRemoteCloses(p) ==
    /\ KaRunning(p)
    /\ ~ka[Peer(p)].started
    /\ KaRemoteOpen(p)
    /\ ka' = [ka EXCEPT ![Peer(p)].result = "Ok"]
    /\ UNCHANGED <<ka_wire, ka_hist, node_vars, pair_vars, init_vars, ext_vars>>

RemoteFrames ==
    {serialize_ka_message(KaKeepAlive), GarbageFrame}
      \cup {serialize_ka_message(KaMessage(message)) : message \in KaPayloads}

KaLoopNext ==
    \/ \E p \in PairPeers : KaTimerTick(p)
    \/ \E p \in PairPeers : KaTimerClosed(p)
    \/ \E p \in PairPeers : KaMessageFromRemote(p)
    \/ \E p \in PairPeers : KaRemoteChannelClosed(p)
    \/ \E p \in PairPeers : KaMessageFromUser(p)
    \/ \E p \in PairPeers : KaUserChannelClosed(p)
    \/ \E p \in PairPeers : KaUserCloses(p)

\* One endpoint, the remote played by the environment.
KeepAliveNext ==
    \/ \E keepalive_ticks \in KeepAlivePeriods : KaStart(keepalive_ticks)
    \/ KaLoopNext
    \/ \E ser_ka_message \in RemoteFrames : KaRemoteSends("A", ser_ka_message)
    \/ KaRemoteTakes("A")
    \/ KaRemoteCloses("A")

\* Two endpoints back to back.
BackToBackNext ==
    \/ \E keepalive_ticks \in BackToBackPeriods : KaStartBackToBack(keepalive_ticks)
    \/ KaLoopNext

\* Two endpoints back to back on one tick stream (as the two channels of
\* task_keepalive_channel_basic, l.248-293, were they given the same ticks):
\* every tick is processed by both endpoints, in either order, and the
\* frames emitted up to a tick are delivered before the next tick.
LockstepPeriods == {2, 3, 4, 5}

\* The most ticks counted in ka_lockstep.
TicksCounted == 6

LockstepInit == ka_lockstep = [ahead |-> None, ticks |-> 0]

frame_on_its_way == \E p \in PairPeers : ka_wire[p] /= <<>>

KaLockstepTick(p) ==
    /\ KaRunning(Peer(p))
    /\ IF IsSome(ka_lockstep.ahead)
       THEN /\ ka_lockstep.ahead = Some(Peer(p))
            /\ ka_lockstep' = [ahead |-> None,
                               ticks |-> IF ka_lockstep.ticks < TicksCounted
                                         THEN ka_lockstep.ticks + 1
                                         ELSE ka_lockstep.ticks]
       ELSE /\ ~frame_on_its_way
            /\ ka_lockstep' = [ka_lockstep EXCEPT !.ahead = Some(p)]
    /\ KaLoopTurn(p, KaEvent("TimerTick", <<>>), ka_wire[p])
    /\ UNCHANGED <<node_vars, pair_vars, init_vars, other_than_lockstep>>

LockstepNext ==
    \/ \E keepalive_ticks \in LockstepPeriods : KaStartBackToBack(keepalive_ticks)
    \/ \E p \in PairPeers : KaLockstepTick(p)
    \/ \E p \in PairPeers : KaMessageFromRemote(p)
    \/ \E p \in PairPeers : KaMessageFromUser(p)

(***************************************************************************)
(* The overwrite channel (components/channeler/src/overwrite_channel.rs).  *)
(***************************************************************************)
\* The items the producer sends: 1, 2, .. MaxItems, in this order.
MaxItems == 3

\* Poll<Option<T>> of the upstream receiver.
poll_next_unpin(up) ==
    IF up.queue /= <<>> THEN [ready |-> TRUE, item |-> Some(Head(up.queue))]
    ELSE IF up.closed THEN [ready |-> TRUE, item |-> None]
    ELSE [ready |-> FALSE, item |-> None]

\* Poll<Result<(), SinkError>> of the sender towards the consumer: an error
\* once the consumer dropped its receiver, pending while the channel is full.
poll_ready(down) ==
    IF down.closed THEN "Err"
    ELSE IF Len(down.queue) < WireCap THEN "Ready"
    ELSE "Pending"

\* A variant of store_item that drops the item that arrives.
store_item_dropped(opt_item, item) == opt_item

\* A variant of store_item that keeps the item that waits.
store_item_unless_waiting(opt_item, item) ==
    IF IsSome(opt_item) THEN opt_item ELSE Some(item)

\* fself.opt_item = Some(item): the previous item is discarded.
store_item(opt_item, item) == Some(item)

\* A variant of resolves that does not look at the receiver.
resolves_when_idle(receiver_present) == TRUE

\* else if fself.opt_receiver.is_none() { return Poll::Ready(Ok(())) }
resolves(receiver_present) == ~receiver_present

\* The first half of a turn of the loop of poll: the receiver is polled.
\* The result carries recv_progress.
poll_receiver(o, up) ==
    IF ~o.receiver_present
    THEN [o |-> o, up |-> up, recv_progress |-> FALSE]
    ELSE With(poll_next_unpin(up), LAMBDA polled :
        IF polled.ready /\ IsSome(polled.item)
        THEN [o |-> [o EXCEPT !.opt_item = store_item(o.opt_item, Unwrap(polled.item))],
              up |-> [up EXCEPT !.queue = Tail(@)],
              recv_progress |-> TRUE]
        ELSE IF polled.ready
        THEN [o |-> [o EXCEPT !.receiver_present = FALSE],
              up |-> up, recv_progress |-> FALSE]
        ELSE [o |-> [o EXCEPT !.recv_waker = TRUE],
              up |-> up, recv_progress |-> FALSE])

\* The second half: the item that waits is offered to the sender.  pc:
\* "running" when the loop takes another turn, "parked" after
\* Poll::Pending; result: "Ok" or "Err" after Poll::Ready.
poll_sender(o, down, recv_progress) ==
    IF IsSome(o.opt_item)
    THEN CASE poll_ready(down) = "Ready" ->
                [o |-> [o EXCEPT !.opt_item = None, !.pc = "running", !.refused = None],
                 down |-> [down EXCEPT !.queue = Append(@, Unwrap(o.opt_item))]]
           [] poll_ready(down) = "Pending" ->
                [o |-> [o EXCEPT !.send_waker = TRUE, !.refused = o.opt_item,
                                 !.pc = IF recv_progress THEN "running" ELSE "parked"],
                 down |-> down]
           [] OTHER ->
                [o |-> [o EXCEPT !.opt_item = None, !.pc = "done", !.result = "Err",
                                 !.refused = None],
                 down |-> down]
    ELSE IF resolves(o.receiver_present)
    THEN [o |-> [o EXCEPT !.pc = "done", !.result = "Ok"], down |-> down]
    ELSE [o |-> [o EXCEPT !.pc = "parked"], down |-> down]

\* OverwriteChannel::new, spawned: the executor polls it a first time.
\* refused: the item in the slot for which the sink was found not ready.
OverwriteInit ==
    /\ ow = [opt_item |-> None, receiver_present |-> TRUE, result |-> "",
             pc |-> "parked", woken |-> TRUE,
             recv_waker |-> FALSE, send_waker |-> FALSE, refused |-> None]
    /\ ow_up = [queue |-> <<>>, sent |-> 0, closed |-> FALSE]
    /\ ow_down = [queue |-> <<>>, taken |-> <<>>, closed |-> FALSE]

\* A waker that was registered wakes the task.
wake_receiver(o) ==
    IF o.recv_waker THEN [o EXCEPT !.recv_waker = FALSE, !.woken = TRUE] ELSE o

wake_sender(o) ==
    IF o.send_waker THEN [o EXCEPT !.send_waker = FALSE, !.woken = TRUE] ELSE o

\* One turn of the loop of OverwriteChannel::poll; a parked task is polled
\* when it was woken.
OwPoll ==
    /\ ow.result = ""
    /\ ow.pc = "running" \/ ow.woken
    /\ \E r \in {poll_receiver([ow EXCEPT !.woken = IF ow.pc = "running" THEN @ ELSE FALSE], ow_up)} :
        \E s \in {poll_sender(r.o, ow_down, r.recv_progress)} :
          /\ ow' = s.o
          /\ ow_up' = r.up
          /\ ow_down' = s.down
    /\ UNCHANGED other_than_overwrite

\* sender.send(item) of the producer.
OwProducerSends ==
    /\ ~ow_up.closed
    /\ ow_up.sent < MaxItems
    /\ Len(ow_up.queue) < WireCap
    /\ ow_up' = [ow_up EXCEPT !.queue = Append(@, ow_up.sent + 1), !.sent = @ + 1]
    /\ ow' = wake_receiver(ow)
    /\ UNCHANGED <<ow_down, other_than_overwrite>>

\* drop(sender)
OwProducerCloses ==
    /\ ~ow_up.closed
    /\ ow_up' = [ow_up EXCEPT !.closed = TRUE]
    /\ ow' = wake_receiver(ow)
    /\ UNCHANGED <<ow_down, other_than_overwrite>>

\* receiver.next() of the consumer.
OwConsumerTakes ==
    /\ ~ow_down.closed
    /\ ow_down.queue /= <<>>
    /\ ow_down' = [ow_down EXCEPT !.queue = Tail(@), !.taken = Append(@, Head(ow_down.queue))]
    /\ ow' = wake_sender(ow)
    /\ UNCHANGED <<ow_up, other_than_overwrite>>

\* The consumer drops its receiver.
OwConsumerCloses ==
    /\ ~ow_down.closed
    /\ ow_down' = [ow_down EXCEPT !.closed = TRUE]
    /\ ow' = wake_sender(ow)
    /\ UNCHANGED <<ow_up, other_than_overwrite>>

OverwriteNext ==
    \/ OwPoll
    \/ OwProducerSends
    \/ OwProducerCloses
    \/ OwConsumerTakes
    \/ OwConsumerCloses

(***************************************************************************)
(* The capacity graph (components/index_server/src/graph.rs).              *)
(***************************************************************************)
\* The nodes, the edges (send, recv) and the capacities asked for.
MaxNode == 2

MaxCapacity == 2

GraphNodes == 0..MaxNode

GraphEdges == {<<1, 2>>, <<2, 1>>}

GraphCapacities == 0..MaxCapacity

\* Two orders in which a HashMap may iterate over the nodes.
GraphOrders ==
    {[i \in 1..(MaxNode + 1) |-> i - 1], [i \in 1..(MaxNode + 1) |-> MaxNode + 1 - i]}

\* CapacityGraph::new: nodes is a map from a node to the map of its edges.
new_capacity_graph == <<>>

\* Every node the graph names.
graph_nodes(nodes) == (DOMAIN nodes) \cup UNION {DOMAIN nodes[x] : x \in DOMAIN nodes}

\* The edges of the graph as triples.
graph_edges(nodes) ==
    UNION {{<<a, b, nodes[a][b]>> : b \in DOMAIN nodes[a]} : a \in DOMAIN nodes}

\* update_edge: the graph afterwards and the value returned.
update_edge(nodes, a, b, edge) ==
    With(IF a \in DOMAIN nodes THEN nodes[a] ELSE <<>>, LAMBDA a_entry :
        [nodes |-> MapPut(nodes, a, MapPut(a_entry, b, edge)),
         result |-> IF b \in DOMAIN a_entry THEN Some(a_entry[b]) ELSE None])

\* A variant of remove_edge that leaves the entry of a node without edges.
remove_edge_unpruned(nodes, a, b) ==
    IF a \notin DOMAIN nodes THEN [nodes |-> nodes, result |-> None]
    ELSE IF b \notin DOMAIN nodes[a] THEN [nodes |-> nodes, result |-> None]
    ELSE [nodes |-> MapPut(nodes, a, MapDel(nodes[a], b)), result |-> Some(nodes[a][b])]

remove_edge(nodes, a, b) ==
    IF a \notin DOMAIN nodes THEN [nodes |-> nodes, result |-> None]
    ELSE IF b \notin DOMAIN nodes[a] THEN [nodes |-> nodes, result |-> None]
    ELSE [nodes |-> IF DOMAIN nodes[a] = {b} THEN MapDel(nodes, a)
                    ELSE MapPut(nodes, a, MapDel(nodes[a], b)),
          result |-> Some(nodes[a][b])]

\* A variant of remove_node that also removes the edges that point to a.
remove_node_and_incoming(nodes, a) ==
    [nodes |-> [x \in {y \in (DOMAIN nodes) \ {a} : DOMAIN nodes[y] /= {a}} |->
                    MapDel(nodes[x], a)],
     result |-> IF a \in DOMAIN nodes THEN Some(nodes[a]) ELSE None]

remove_node(nodes, a) ==
    [nodes |-> MapDel(nodes, a),
     result |-> IF a \in DOMAIN nodes THEN Some(nodes[a]) ELSE None]

get_edge(nodes, a, b) ==
    IF a \notin DOMAIN nodes THEN None
    ELSE IF b \notin DOMAIN nodes[a] THEN None
    ELSE Some(nodes[a][b])

\* A variant of get_send_capacity that trusts what a reports when b reports
\* nothing.
get_send_capacity_own_report(nodes, a, b) ==
    IF ~IsSome(get_edge(nodes, a, b)) THEN 0
    ELSE IF ~IsSome(get_edge(nodes, b, a)) THEN Unwrap(get_edge(nodes, a, b))[1]
    ELSE Min(Unwrap(get_edge(nodes, a, b))[1], Unwrap(get_edge(nodes, b, a))[2])

get_send_capacity(nodes, a, b) ==
    IF ~IsSome(get_edge(nodes, a, b)) THEN 0
    ELSE IF ~IsSome(get_edge(nodes, b, a)) THEN 0
    ELSE Min(Unwrap(get_edge(nodes, a, b))[1], Unwrap(get_edge(nodes, b, a))[2])

\* The keys of a map in the order a HashMap iterates over them: `order` is
\* a sequence without repetition that holds every key.
keys_in_order(map, order) == SelectSeq(order, LAMBDA k : k \in DOMAIN map)

\* neighbors_with_send_capacity: None when a has no entry.
neighbors_with_send_capacity(nodes, a, capacity, order) ==
    IF a \notin DOMAIN nodes THEN None
    ELSE Some(SelectSeq(keys_in_order(nodes[a], order),
                        LAMBDA b : get_send_capacity(nodes, a, b) >= capacity))

RECURSIVE route_send_capacities(_, _)
route_send_capacities(nodes, route) ==
    IF Len(route) < 2 THEN {}
    ELSE {get_send_capacity(nodes, route[1], route[2])}
            \cup route_send_capacities(nodes, Tail(route))

\* get_route_capacity: None for a route without a pair of nodes.
get_route_capacity(nodes, route) ==
    IF Len(route) < 2 THEN None
    ELSE Some(SetMin(route_send_capacities(nodes, route)))

\* bfs: breadth first from src; a node is marked when it is first reached,
\* src is not marked at the start (a route from a node to itself is a loop,
\* never the route of one node), and the search ends when dst is reached.
\* get_neighbors maps a node to Some(neighbors), or to None where the
\* caller's closure panics.
RECURSIVE backtrack_route(_, _, _)
backtrack_route(backtrack, src, node) ==
    IF backtrack[node] = src THEN <<src, node>>
    ELSE Append(backtrack_route(backtrack, src, backtrack[node]), node)

RECURSIVE bfs_visit(_, _, _, _, _)
bfs_visit(neighbors, node, dst, queue, backtrack) ==
    IF neighbors = <<>> THEN [found |-> FALSE, queue |-> queue, backtrack |-> backtrack]
    ELSE IF Head(neighbors) \in DOMAIN backtrack
    THEN bfs_visit(Tail(neighbors), node, dst, queue, backtrack)
    ELSE IF Head(neighbors) = dst
    THEN [found |-> TRUE, queue |-> queue,
          backtrack |-> MapPut(backtrack, Head(neighbors), node)]
    ELSE bfs_visit(Tail(neighbors), node, dst, Append(queue, Head(neighbors)),
                   MapPut(backtrack, Head(neighbors), node))

RECURSIVE bfs_loop(_, _, _, _, _)
bfs_loop(src, dst, get_neighbors, queue, backtrack) ==
    IF queue = <<>> THEN [kind |-> "None", route |-> <<>>]
    ELSE IF ~IsSome(get_neighbors[Head(queue)]) THEN [kind |-> "Panic", route |-> <<>>]
    ELSE With(bfs_visit(Unwrap(get_neighbors[Head(queue)]), Head(queue), dst,
                        Tail(queue), backtrack),
              LAMBDA visited :
        IF visited.found
        THEN [kind |-> "Some", route |-> backtrack_route(visited.backtrack, src, dst)]
        ELSE bfs_loop(src, dst, get_neighbors, visited.queue, visited.backtrack))

bfs(src, dst, get_neighbors) == bfs_loop(src, dst, get_neighbors, <<src>>, <<>>)

\* get_route: kind is "None", "Some" (with the route and its capacity) or
\* "Panic" (an unwrap() of None).
get_route(nodes, a, b, capacity, order) ==
    With(bfs(a, b, [n \in graph_nodes(nodes) \cup {a, b} |->
                        neighbors_with_send_capacity(nodes, n, capacity, order)]),
         LAMBDA found :
        IF found.kind /= "Some" THEN [kind |-> found.kind, route |-> <<>>, capacity |-> 0]
        ELSE IF ~IsSome(get_route_capacity(nodes, found.route))
        THEN [kind |-> "Panic", route |-> <<>>, capacity |-> 0]
        ELSE [kind |-> "Some", route |-> found.route,
              capacity |-> Unwrap(get_route_capacity(nodes, found.route))])

\* The closure of get_loop_from and get_loop_to: the neighbors of cur_node
\* with send capacity, without `to` when cur_node is `from`.
neighbors_without_edge(nodes, cur_node, capacity, order, from, to) ==
    With(neighbors_with_send_capacity(nodes, cur_node, capacity, order), LAMBDA found :
        IF ~IsSome(found) THEN None
        ELSE Some(SelectSeq(Unwrap(found),
                            LAMBDA next_node : ~(cur_node = from) \/ next_node /= to)))

\* What get_loop_from and get_loop_to do with the route bfs returns.
loop_of(nodes, found) ==
    IF found.kind /= "Some" THEN [kind |-> found.kind, route |-> <<>>, capacity |-> 0]
    ELSE IF Len(found.route) < 2 \/ ~IsSome(get_route_capacity(nodes, found.route))
    THEN [kind |-> "Panic", route |-> <<>>, capacity |-> 0]
    ELSE [kind |-> "Some", route |-> found.route,
          capacity |-> Unwrap(get_route_capacity(nodes, found.route))]

\* A variant of get_loop_from that forbids no edge.
get_loop_from_any_edge(nodes, a, neighbor, capacity, order) ==
    loop_of(nodes,
            bfs(a, a, [n \in graph_nodes(nodes) \cup {a, neighbor} |->
                         neighbors_with_send_capacity(nodes, n, capacity, order)]))

\* get_loop_from: the directed edge (neighbor -> a) is not allowed.
get_loop_from(nodes, a, neighbor, capacity, order) ==
    loop_of(nodes,
            bfs(a, a, [n \in graph_nodes(nodes) \cup {a, neighbor} |->
                         neighbors_without_edge(nodes, n, capacity, order, neighbor, a)]))

\* get_loop_to: the directed edge (a -> neighbor) is not allowed.
get_loop_to(nodes, a, neighbor, capacity, order) ==
    loop_of(nodes,
            bfs(a, a, [n \in graph_nodes(nodes) \cup {a, neighbor} |->
                         neighbors_without_edge(nodes, n, capacity, order, a, neighbor)]))

\* The calls of test_get_route, in order.
TestGetRouteCalls ==
    << <<0, 1, <<30, 10>>>>, <<1, 0, <<10, 30>>>>,
       <<1, 2, <<10, 10>>>>, <<2, 1, <<10, 10>>>>,
       <<2, 5, <<30, 5>>>>,  <<2, 5, <<5, 30>>>>,
       <<1, 3, <<30, 8>>>>,  <<3, 1, <<8, 30>>>>,
       <<3, 4, <<30, 6>>>>,  <<4, 3, <<6, 30>>>>,
       <<4, 2, <<30, 18>>>>, <<2, 4, <<18, 30>>>> >>

TestNodes == 0..5

TestCapacities == {0, 5, 10, 25, 30, 31}

TestOrders == {<<0, 1, 2, 3, 4, 5>>, <<5, 4, 3, 2, 1, 0>>}

CgLast(op, a, b, capacity, result) ==
    [op |-> op, a |-> a, b |-> b, capacity |-> capacity, result |-> result]

\* The graph was changed by update_edge or remove_edge since the last answer.
Mutated == CgLast("mutated", 0, 0, 0, None)

GraphInit ==
    /\ cg = new_capacity_graph
    /\ cg_last = Mutated
    /\ cg_calls = 0

CgUpdateEdge(a, b, edge) ==
    /\ cg' = update_edge(cg, a, b, edge).nodes
    /\ cg_last' = Mutated
    /\ UNCHANGED <<cg_calls, other_than_graph>>

CgRemoveEdge(a, b) ==
    /\ cg' = remove_edge(cg, a, b).nodes
    /\ cg_last' = CgLast("remove_edge", a, b, 0, remove_edge(cg, a, b).result)
    /\ UNCHANGED <<cg_calls, other_than_graph>>

CgRemoveNode(a) ==
    /\ cg' = remove_node(cg, a).nodes
    /\ cg_last' = CgLast("remove_node", a, a, 0, remove_node(cg, a).result)
    /\ UNCHANGED <<cg_calls, other_than_graph>>

\* The answers are computed from &self: one is recorded between two changes
\* of the graph.
CgGetSendCapacity(a, b) ==
    /\ cg_last.op \in {"mutated", "remove_node", "remove_edge"}
    /\ cg_last' = CgLast("get_send_capacity", a, b, 0, get_send_capacity(cg, a, b))
    /\ UNCHANGED <<cg, cg_calls, other_than_graph>>

CgGetRoute(a, b, capacity, order) ==
    /\ cg_last.op \in {"mutated", "remove_node", "remove_edge"}
    /\ cg_last' = CgLast("get_route", a, b, capacity, get_route(cg, a, b, capacity, order))
    /\ UNCHANGED <<cg, cg_calls, other_than_graph>>

CgGetLoopFrom(a, neighbor, capacity, order) ==
    /\ cg_last.op \in {"mutated", "remove_node", "remove_edge"}
    /\ cg_last' = CgLast("get_loop_from", a, neighbor, capacity,
                         get_loop_from(cg, a, neighbor, capacity, order))
    /\ UNCHANGED <<cg, cg_calls, other_than_graph>>

CgGetLoopTo(a, neighbor, capacity, order) ==
    /\ cg_last.op \in {"mutated", "remove_node", "remove_edge"}
    /\ cg_last' = CgLast("get_loop_to", a, neighbor, capacity,
                         get_loop_to(cg, a, neighbor, capacity, order))
    /\ UNCHANGED <<cg, cg_calls, other_than_graph>>

\* The next call of test_get_route.
CgTestCall ==
    /\ cg_calls < Len(TestGetRouteCalls)
    /\ \E call \in {TestGetRouteCalls[cg_calls + 1]} :
          cg' = update_edge(cg, call[1], call[2], call[3]).nodes
    /\ cg_last' = Mutated
    /\ cg_calls' = cg_calls + 1
    /\ UNCHANGED other_than_graph

GraphNext ==
    \/ \E a, b \in GraphNodes, edge \in GraphEdges : a /= b /\ CgUpdateEdge(a, b, edge)
    \/ \E a, b \in GraphNodes : CgRemoveEdge(a, b)
    \/ \E a \in GraphNodes : CgRemoveNode(a)
    \/ \E a, b \in GraphNodes : CgGetSendCapacity(a, b)
    \/ \E a, b \in GraphNodes, capacity \in GraphCapacities :
          \E order \in GraphOrders : CgGetRoute(a, b, capacity, order)

\* The graph is changed and loops are asked for.
LoopsNext ==
    \/ \E a, b \in GraphNodes, edge \in GraphEdges : a /= b /\ CgUpdateEdge(a, b, edge)
    \/ \E a, b \in GraphNodes : CgRemoveEdge(a, b)
    \/ \E a \in GraphNodes : CgRemoveNode(a)
    \/ \E a, neighbor \in GraphNodes, capacity \in GraphCapacities :
          \E order \in GraphOrders : CgGetLoopFrom(a, neighbor, capacity, order)
    \/ \E a, neighbor \in GraphNodes, capacity \in GraphCapacities :
          \E order \in GraphOrders : CgGetLoopTo(a, neighbor, capacity, order)

\* test_get_route, and every route asked for on its graph.
TestGetRouteNext ==
    \/ CgTestCall
    \/ \E a, b \in TestNodes, capacity \in TestCapacities, order \in TestOrders :
          CgGetRoute(a, b, capacity, order)

(***************************************************************************)
(* The verifier (components/index_server/src/verifier.rs).  HashClock and  *)
(* RatchetPool are described by section 4.B of the specification.          *)
(***************************************************************************)
\* ticks_to_live, the ticks of a run and the counters of announcements.
TicksToLive == 2

MaxVerifierTicks == 3

MaxCounter == 2

\* The hash of the k-th local tick is k; the hashes neighbors report are
\* other numbers.
TickHashes == 1..MaxVerifierTicks

NeighborHash == 11

UnknownHash == 12

SessionIds == {"s1", "s2"}

\* A link of an expansion chain: a list of hashes and the hash of the list.
ExpansionLink(contains, hash) == [contains |-> contains, hash |-> hash]

\* The time stamps of announcements, (origin_tick_hash, expansion_chain):
\* a local tick hash, a neighbor's hash expanded to a local tick hash, a
\* hash the chain does not hold, a chain that ends at no tick hash.
TimeStamps ==
    {<<tick_hash, <<>>>> : tick_hash \in TickHashes}
      \cup {<<NeighborHash, <<ExpansionLink({NeighborHash}, tick_hash)>>>> :
                tick_hash \in TickHashes}
      \cup {<<UnknownHash, <<ExpansionLink({NeighborHash}, 1)>>>>,
            <<NeighborHash, <<>>>>}

\* HashClock::new, RatchetPool::new
new_hash_clock(ticks_to_live) ==
    [ticks_to_live |-> ticks_to_live, history |-> <<>>, neighbor_hashes |-> <<>>]

new_ratchet_pool(ticks_to_live) == [ticks_to_live |-> ticks_to_live, ratchets |-> <<>>]

\* Verifier::new
new_verifier(ticks_to_live) ==
    [hash_clock |-> new_hash_clock(ticks_to_live),
     ratchet_pool |-> new_ratchet_pool(ticks_to_live)]

\* HashClock::verify_expansion_chain: every link holds the hash reached so
\* far, and the hash of the last link (the origin for an empty chain) is a
\* tick hash of the live history.
RECURSIVE chain_end(_, _)
chain_end(hash, expansion_chain) ==
    IF expansion_chain = <<>> THEN Some(hash)
    ELSE IF hash \notin Head(expansion_chain).contains THEN None
    ELSE chain_end(Head(expansion_chain).hash, Tail(expansion_chain))

in_history(hash_clock, hash) ==
    \E i \in DOMAIN hash_clock.history : hash_clock.history[i] = hash

verify_expansion_chain(hash_clock, origin_tick_hash, expansion_chain) ==
    With(chain_end(origin_tick_hash, expansion_chain), LAMBDA tick_hash :
        IF IsSome(tick_hash) /\ in_history(hash_clock, Unwrap(tick_hash))
        THEN tick_hash ELSE None)

\* HashClock::get_expansion: the hashes neighbors reported during the tick.
get_expansion(hash_clock, tick_hash) ==
    IF in_history(hash_clock, tick_hash) THEN Some(<<>>) ELSE None

\* HashClock::tick: a new tick hash, the oldest one aged out.
hash_clock_tick(hash_clock, tick_hash) ==
    With(Append(hash_clock.history, tick_hash), LAMBDA history :
        [hash_clock EXCEPT !.history =
            IF Len(history) > hash_clock.ticks_to_live THEN Tail(history) ELSE history])

\* RatchetPool::update: the counter must exceed the one stored for
\* (node, session_id); the ratchet is then updated and lives again for
\* ticks_to_live ticks.
ratchet_pool_update(pool, node, session_id, counter) ==
    IF <<node, session_id>> \in DOMAIN pool.ratchets
          /\ counter <= pool.ratchets[<<node, session_id>>].counter
    THEN [pool |-> pool, updated |-> FALSE]
    ELSE [pool |-> [pool EXCEPT !.ratchets =
                        MapPut(@, <<node, session_id>>,
                               [counter |-> counter, ticks_to_live |-> pool.ticks_to_live])],
          updated |-> TRUE]

\* RatchetPool::tick: a ratchet that was not updated for ticks_to_live ticks
\* is forgotten.
ratchet_pool_tick(pool) ==
    [pool EXCEPT !.ratchets =
        [k \in {x \in DOMAIN pool.ratchets : pool.ratchets[x].ticks_to_live > 1} |->
            [pool.ratchets[k] EXCEPT !.ticks_to_live = @ - 1]]]

\* A variant of verify that updates the ratchet before it checks the time
\* stamp.
verify_ratchet_first(v, origin_tick_hash, expansion_chain, node, session_id, counter) ==
    With(ratchet_pool_update(v.ratchet_pool, node, session_id, counter), LAMBDA r :
        IF ~r.updated THEN [v |-> v, result |-> None]
        ELSE [v |-> [v EXCEPT !.ratchet_pool = r.pool],
              result |-> IF IsSome(verify_expansion_chain(v.hash_clock, origin_tick_hash,
                                                          expansion_chain))
                         THEN Some(<<>>) ELSE None])

\* A variant of verify that does not consult the ratchets.
verify_unratcheted(v, origin_tick_hash, expansion_chain, node, session_id, counter) ==
    With(verify_expansion_chain(v.hash_clock, origin_tick_hash, expansion_chain),
         LAMBDA tick_hash :
        IF ~IsSome(tick_hash) THEN [v |-> v, result |-> None]
        ELSE [v |-> v, result |-> Some(<<>>)])

\* A variant of verify that takes the announcement whatever its tick hash.
verify_any_tick(v, origin_tick_hash, expansion_chain, node, session_id, counter) ==
    With(ratchet_pool_update(v.ratchet_pool, node, session_id, counter), LAMBDA r :
        IF ~r.updated THEN [v |-> v, result |-> None]
        ELSE [v |-> [v EXCEPT !.ratchet_pool = r.pool], result |-> Some(<<>>)])

\* Verifier::verify: the verifier afterwards and the value returned.
verify(v, origin_tick_hash, expansion_chain, node, session_id, counter) ==
    With(verify_expansion_chain(v.hash_clock, origin_tick_hash, expansion_chain),
         LAMBDA tick_hash :
        IF ~IsSome(tick_hash) THEN [v |-> v, result |-> None]
        ELSE With(ratchet_pool_update(v.ratchet_pool, node, session_id, counter),
                  LAMBDA r :
            IF ~r.updated THEN [v |-> v, result |-> None]
            ELSE [v |-> [v EXCEPT !.ratchet_pool = r.pool],
                  result |-> Some(Unwrap(get_expansion(v.hash_clock, Unwrap(tick_hash))))]))

\* Verifier::tick
verifier_tick(v, tick_hash) ==
    [v EXCEPT !.ratchet_pool = ratchet_pool_tick(v.ratchet_pool),
              !.hash_clock = hash_clock_tick(v.hash_clock, tick_hash)]

\* HashClock::neighbor_tick: the hash the neighbor reports takes the place of
\* the one it reported before, which is returned.
hash_clock_neighbor_tick(hash_clock, neighbor, tick_hash) ==
    [hash_clock |-> [hash_clock EXCEPT !.neighbor_hashes = MapPut(@, neighbor, tick_hash)],
     result |-> IF neighbor \in DOMAIN hash_clock.neighbor_hashes
                THEN Some(hash_clock.neighbor_hashes[neighbor]) ELSE None]

\* Verifier::neighbor_tick
neighbor_tick(v, neighbor, tick_hash) ==
    With(hash_clock_neighbor_tick(v.hash_clock, neighbor, tick_hash), LAMBDA r :
        [v |-> [v EXCEPT !.hash_clock = r.hash_clock], result |-> r.result])

\* vf_seen: the ticks so far and, for every (node, session_id), the greatest
\* counter ever accepted and the ticks since the last accepted announcement;
\* one accepted announcement that is followed from its acceptance on, and
\* whether it was accepted once more.
Announcement(origin_tick_hash, expansion_chain, node, session_id, counter) ==
    [origin_tick_hash |-> origin_tick_hash, expansion_chain |-> expansion_chain,
     node |-> node, session_id |-> session_id, counter |-> counter]

VerifierInit ==
    /\ verifier = new_verifier(TicksToLive)
    /\ vf_last = [op |-> "new"]
    /\ vf_seen = [ticks |-> 0, accepted |-> <<>>, followed |-> None,
                  accepted_again |-> FALSE, live_at_update |-> <<>>]

\* The ratchets RatchetPool::tick forgets.
forgotten_by_tick(v) ==
    {k \in DOMAIN v.ratchet_pool.ratchets :
        k \notin DOMAIN ratchet_pool_tick(v.ratchet_pool).ratchets}

VfVerify(origin_tick_hash, expansion_chain, node, session_id, counter) ==
    \E out \in {verify(verifier, origin_tick_hash, expansion_chain, node, session_id, counter)} :
        /\ verifier' = out.v
        /\ vf_last' = [op |-> "verify", origin_tick_hash |-> origin_tick_hash,
                       expansion_chain |-> expansion_chain, node |-> node,
                       session_id |-> session_id, counter |-> counter,
                       result |-> out.result,
                       stored |-> IF <<node, session_id>> \in DOMAIN verifier.ratchet_pool.ratchets
                                  THEN Some(verifier.ratchet_pool.ratchets[<<node, session_id>>].counter)
                                  ELSE None,
                       accepted |-> IF <<node, session_id>> \in DOMAIN vf_seen.accepted
                                    THEN Some(vf_seen.accepted[<<node, session_id>>])
                                    ELSE None]
        /\ vf_seen' = IF IsSome(out.result)
                      THEN [vf_seen EXCEPT !.accepted =
                               MapPut(@, <<node, session_id>>,
                                      [counter |-> counter, ticks_since |-> 0])]
                      ELSE vf_seen
        /\ UNCHANGED other_than_verifier

\* verify is called with an announcement; an accepted announcement may be
\* the one that is followed from now on.
VfAnnounce(origin_tick_hash, expansion_chain, node, session_id, counter, follow) ==
    \E out \in {verify(verifier, origin_tick_hash, expansion_chain, node, session_id, counter)},
       announcement \in {Announcement(origin_tick_hash, expansion_chain, node,
                                      session_id, counter)} :
        /\ follow => IsSome(out.result) /\ ~IsSome(vf_seen.followed)
        /\ verifier' = out.v
        /\ vf_last' = [op |-> "announce"]
        /\ vf_seen' = [vf_seen EXCEPT
              !.followed = IF follow THEN Some(announcement) ELSE @,
              !.live_at_update =
                  IF IsSome(out.result)
                  THEN MapPut(@, <<node, session_id>>, verifier.hash_clock.history)
                  ELSE @,
              !.accepted_again = @ \/ (/\ IsSome(out.result)
                                       /\ vf_seen.followed = Some(announcement))]
        /\ UNCHANGED other_than_verifier

VfNeighborTick(neighbor, tick_hash) ==
    \E out \in {neighbor_tick(verifier, neighbor, tick_hash)} :
        /\ verifier' = out.v
        /\ vf_last' = [op |-> "neighbor_tick", result |-> out.result, before |-> verifier]
        /\ UNCHANGED <<vf_seen, other_than_verifier>>

VfTick ==
    /\ vf_seen.ticks < MaxVerifierTicks
    /\ verifier' = verifier_tick(verifier, vf_seen.ticks + 1)
    /\ vf_last' = [op |-> "tick", before |-> verifier,
                   forgotten |-> forgotten_by_tick(verifier),
                   live_at_update |-> vf_seen.live_at_update]
    /\ vf_seen' = [vf_seen EXCEPT
                      !.ticks = @ + 1,
                      !.live_at_update =
                          [k \in DOMAIN @ \ forgotten_by_tick(verifier) |-> @[k]],
                      !.accepted = [k \in DOMAIN @ |-> [@[k] EXCEPT !.ticks_since = @ + 1]]]
    /\ UNCHANGED other_than_verifier

VerifierNext ==
    \/ VfTick
    \/ \E stamp \in TimeStamps, session_id \in SessionIds, counter \in 0..MaxCounter :
          VfVerify(stamp[1], stamp[2], "n", session_id, counter)

\* Announcements, ticks and the tick hashes neighbors report, in any order.
AnnouncementsNext ==
    \/ VfTick
    \/ \E tick_hash \in {NeighborHash, UnknownHash} : VfNeighborTick("m", tick_hash)
    \/ \E stamp \in TimeStamps, session_id \in SessionIds, counter \in 0..MaxCounter,
          follow \in BOOLEAN :
          VfAnnounce(stamp[1], stamp[2], "n", session_id, counter, follow)

(***************************************************************************)
(* The handshake of the channeler (cswitch/src/channeler/channel.rs).      *)
(* ChannelNew is a future; one poll runs its loop until it returns.  What  *)
(* the futures, sinks, streams and the timer under it answer during one    *)
(* poll is the outcome record of that poll: the timer's answer, how many   *)
(* stages complete, what the stage after them answers, whether the lock of *)
(* the cleanup is free, the key the remote presents in InitChannel and     *)
(* whether the networker's queue is full.  The neighbors table is owned by *)
(* the channeler (not in channel.rs); a connection attempt is counted in   *)
(* num_pending_out_conn before the future is created.  The lock future of  *)
(* futures_mutex never fails, so its answers are NotReady and Ready.       *)
(***************************************************************************)
Neighbor == "N"

Roles == {"Initiator", "Responder"}

\* The stages a handshake passes through when nothing fails, from connect.
HandshakeOrder ==
    <<"PrepareTcp", "PrepareInit", "SendInit", "SendInit", "WaitInit", "VerifyNeighbor",
      "PrepareExchange", "SendExchange", "SendExchange", "WaitExchange", "FinalStage">>

TimerOutcomes == {"NotReady", "Ready", "Err"}

LockOutcomes == {"NotReady", "Ready"}

\* What the stage after the completed ones answers: not ready, an error of
\* the future, sink or stream, the end of the stream, a frame that does not
\* deserialize, an Exchange whose signature does not verify.
StageOutcomes == {"NotReady", "Err", "Closed", "Garbage", "BadSignature"}

PollOutcomes ==
    [timeout : TimerOutcomes, ready : 0..Len(HandshakeOrder), then : StageOutcomes,
     lock : LockOutcomes, remote_key : {Neighbor, Stranger}, networker_full : BOOLEAN]

\* The ChannelNewState values that carry nothing.
channel_new_state(tag) == [tag |-> tag]

\* Channel::connect
connect(neighbor_public_key) ==
    [state |-> channel_new_state("PrepareTcp"), role |-> "Initiator",
     neighbor_public_key |-> Some(neighbor_public_key), result |-> "NotReady",
     error |-> "none"]

\* Channel::from_socket
from_socket ==
    [state |-> channel_new_state("PrepareInit"), role |-> "Responder",
     neighbor_public_key |-> None, result |-> "NotReady", error |-> "none"]

\* ChannelNew::on_error: the cleanup future takes the role, the neighbor's key
\* and the error with it; it does nothing until it is polled.
on_error(cn, e) ==
    [cn EXCEPT !.state = [tag |-> "Error", role |-> cn.role,
                          neighbor_public_key |-> cn.neighbor_public_key,
                          original_error |-> e]]

\* The closure of the cleanup future, run with the lock held.
cleanup_fut(neighbors_table, st) ==
    IF /\ IsSome(st.neighbor_public_key)
       /\ Unwrap(st.neighbor_public_key) \in DOMAIN neighbors_table
       /\ st.role = "Initiator"
    THEN [neighbors_table EXCEPT ![Unwrap(st.neighbor_public_key)].num_pending_out_conn = @ - 1]
    ELSE neighbors_table

\* The closure of verify_neighbor_fut, run with the lock held.
verify_neighbor_fut(neighbors_table, expected_public_key, public_key_to_verify) ==
    IF IsSome(expected_public_key)
    THEN IF Unwrap(expected_public_key) # public_key_to_verify
         THEN "neighbor public key not match" ELSE "ok"
    ELSE IF public_key_to_verify \notin DOMAIN neighbors_table THEN "unknown neighbor"
         ELSE IF neighbors_table[public_key_to_verify].socket_addr THEN "not allowed"
         ELSE "ok"

\* The closure of final_stage_fut, run with the lock held.
final_stage_fut(neighbors_table, neighbor_public_key, role, networker_full) ==
    IF neighbor_public_key \notin DOMAIN neighbors_table
    THEN [neighbors |-> neighbors_table, result |-> "unknown neighbor"]
    ELSE IF neighbors_table[neighbor_public_key].channels = 0 /\ networker_full
    THEN [neighbors |-> neighbors_table, result |-> "SendToNetworkerFailed"]
    ELSE [neighbors |->
             [neighbors_table EXCEPT
                 ![neighbor_public_key].channels = @ + 1,
                 ![neighbor_public_key].num_pending_out_conn =
                     IF role = "Initiator" THEN @ - 1 ELSE @],
          result |-> "ok"]

\* What one turn of the loop of ChannelNew::poll gives: the future, the
\* table, and "continue" or what poll returns.
poll_turn(cn, neighbors_table, ret, e) ==
    [cn |-> cn, neighbors |-> neighbors_table, ret |-> ret, error |-> e]

poll_continue(cn, neighbors_table) == poll_turn(cn, neighbors_table, "continue", "none")

\* A stage whose future, sink or stream only completes, fails or is not ready.
plain_stage(cn, neighbors_table, answer, next_state) ==
    CASE answer = "Err" -> poll_continue(on_error(cn, "Io"), neighbors_table)
      [] answer = "Ready" -> poll_continue([cn EXCEPT !.state = next_state], neighbors_table)
      [] answer = "NotReady" -> poll_turn(cn, neighbors_table, "NotReady", "none")
      [] OTHER -> poll_turn(cn, neighbors_table, "inapplicable", "none")

\* One turn of the loop of ChannelNew::poll, by the state it finds.
poll_state(cn, neighbors_table, o, answer) ==
    CASE cn.state.tag = "Error" ->
           IF o.lock = "NotReady" THEN poll_turn(cn, neighbors_table, "NotReady", "none")
           ELSE poll_turn(cn, cleanup_fut(neighbors_table, cn.state), "Err",
                          cn.state.original_error)
      [] cn.state.tag = "PrepareTcp" ->
           plain_stage(cn, neighbors_table, answer, channel_new_state("PrepareInit"))
      [] cn.state.tag = "PrepareInit" ->
           plain_stage(cn, neighbors_table, answer, [tag |-> "SendInit", msg |-> TRUE])
      [] cn.state.tag = "SendInit" ->
           plain_stage(cn, neighbors_table, answer,
                       IF cn.state.msg THEN [tag |-> "SendInit", msg |-> FALSE]
                       ELSE channel_new_state("WaitInit"))
      [] cn.state.tag = "WaitInit" ->
           CASE answer = "Closed" ->
                  poll_turn(on_error(cn, "connection lost"), neighbors_table,
                            "Err", "connection lost")
             [] answer = "Garbage" -> poll_continue(on_error(cn, "Schema"), neighbors_table)
             [] answer = "Ready" ->
                  poll_continue([cn EXCEPT !.state =
                                    [tag |-> "VerifyNeighbor", public_key |-> o.remote_key,
                                     expected_public_key |-> cn.neighbor_public_key]],
                                neighbors_table)
             [] OTHER -> plain_stage(cn, neighbors_table, answer, cn.state)
      [] cn.state.tag = "VerifyNeighbor" ->
           CASE answer = "NotReady" -> poll_turn(cn, neighbors_table, "NotReady", "none")
             [] answer = "Ready" ->
                  With(verify_neighbor_fut(neighbors_table, cn.state.expected_public_key,
                                           cn.state.public_key),
                       LAMBDA r :
                         IF r # "ok" THEN poll_continue(on_error(cn, r), neighbors_table)
                         ELSE poll_continue(
                                [cn EXCEPT !.neighbor_public_key = Some(cn.state.public_key),
                                           !.state = channel_new_state("PrepareExchange")],
                                neighbors_table))
             [] OTHER -> poll_turn(cn, neighbors_table, "inapplicable", "none")
      [] cn.state.tag = "PrepareExchange" ->
           plain_stage(cn, neighbors_table, answer, [tag |-> "SendExchange", msg |-> TRUE])
      [] cn.state.tag = "SendExchange" ->
           plain_stage(cn, neighbors_table, answer,
                       IF cn.state.msg THEN [tag |-> "SendExchange", msg |-> FALSE]
                       ELSE channel_new_state("WaitExchange"))
      [] cn.state.tag = "WaitExchange" ->
           CASE answer = "Closed" ->
                  poll_continue(on_error(cn, "connection lost"), neighbors_table)
             [] answer = "Garbage" -> poll_continue(on_error(cn, "Schema"), neighbors_table)
             [] answer = "BadSignature" ->
                  poll_turn(cn, neighbors_table, "Err", "invalid signature")
             [] answer = "Ready" ->
                  poll_continue([cn EXCEPT !.state =
                                    [tag |-> "FinalStage", role |-> cn.role,
                                     neighbor_public_key |-> Unwrap(cn.neighbor_public_key)]],
                                neighbors_table)
             [] OTHER -> plain_stage(cn, neighbors_table, answer, cn.state)
      [] cn.state.tag = "FinalStage" ->
           CASE answer = "NotReady" -> poll_turn(cn, neighbors_table, "NotReady", "none")
             [] answer = "Ready" ->
                  With(final_stage_fut(neighbors_table, cn.state.neighbor_public_key,
                                       cn.state.role, o.networker_full),
                       LAMBDA r :
                         IF r.result # "ok"
                         THEN poll_continue(on_error(cn, r.result), neighbors_table)
                         ELSE poll_turn([cn EXCEPT !.neighbor_public_key = None,
                                                   !.state = channel_new_state("Empty")],
                                        r.neighbors, "Ready", "none"))
             [] OTHER -> poll_turn(cn, neighbors_table, "inapplicable", "none")

\* The loop of ChannelNew::poll: the first `ready` stages complete, the one
\* after them answers o.then.
RECURSIVE poll_loop(_, _, _, _)
poll_loop(cn, neighbors_table, o, ready) ==
    With(poll_state(cn, neighbors_table, o, IF ready > 0 THEN "Ready" ELSE o.then),
         LAMBDA t :
           IF t.ret = "continue"
           THEN poll_loop(t.cn, t.neighbors, o, IF ready > 0 THEN ready - 1 ELSE 0)
           ELSE t)

\* ChannelNew::poll
channel_new_poll(cn, neighbors_table, o) ==
    CASE o.timeout = "Ready" -> poll_turn(cn, neighbors_table, "Err", "Timeout")
      [] o.timeout = "Err" -> poll_loop(on_error(cn, "Io"), neighbors_table, o, o.ready)
      [] OTHER -> poll_loop(cn, neighbors_table, o, o.ready)

\* No handshake yet; the neighbor has an address, no channel and no pending
\* connection.
no_channel_new ==
    [state |-> channel_new_state("Empty"), role |-> "none", neighbor_public_key |-> None,
     result |-> "none", error |-> "none"]

\* A neighbor of the channeler's table: we connect to one that has an
\* address, one without an address connects to us.
new_neighbor(socket_addr, channels, num_pending_out_conn) ==
    [socket_addr |-> socket_addr, channels |-> channels,
     num_pending_out_conn |-> num_pending_out_conn]

\* cn_seen: the pending connections the neighbor had when the future was
\* created (this one included), and whether the neighbor was removed since.
HandshakeInit ==
    /\ channel_new = no_channel_new
    /\ cn_neighbors = <<>>
    /\ cn_seen = [pending_at_start |-> 0, removed |-> FALSE]

\* The channeler counts the attempt and creates the future (Channel::connect).
CnConnect(channels) ==
    /\ channel_new.result = "none"
    /\ channel_new' = connect(Neighbor)
    /\ cn_neighbors' = (Neighbor :> new_neighbor(TRUE, channels, 1))
    /\ cn_seen' = [pending_at_start |-> 1, removed |-> FALSE]
    /\ UNCHANGED other_than_handshake

\* A connection comes in (Channel::from_socket).
CnFromSocket(channels) ==
    /\ channel_new.result = "none"
    /\ channel_new' = from_socket
    /\ cn_neighbors' = (Neighbor :> new_neighbor(FALSE, channels, 0))
    /\ cn_seen' = [pending_at_start |-> 0, removed |-> FALSE]
    /\ UNCHANGED other_than_handshake

\* The executor polls the future until it has resolved.
CnPoll(o) ==
    /\ channel_new.result = "NotReady"
    /\ \E t \in {channel_new_poll(channel_new, cn_neighbors, o)} :
          /\ t.ret # "inapplicable"
          /\ channel_new' = [t.cn EXCEPT !.result = t.ret, !.error = t.error]
          /\ cn_neighbors' = t.neighbors
    /\ UNCHANGED cn_seen
    /\ UNCHANGED other_than_handshake

\* The channeler removes the neighbor while the handshake is under way.
CnRemoveNeighbor ==
    /\ channel_new.result = "NotReady"
    /\ Neighbor \in DOMAIN cn_neighbors
    /\ cn_neighbors' = MapDel(cn_neighbors, Neighbor)
    /\ cn_seen' = [cn_seen EXCEPT !.removed = TRUE]
    /\ UNCHANGED channel_new
    /\ UNCHANGED other_than_handshake

HandshakeNext ==
    \/ \E channels \in {0, 1} : CnConnect(channels)
    \/ \E channels \in {0, 1} : CnFromSocket(channels)
    \/ \E o \in PollOutcomes : CnPoll(o)
    \/ CnRemoveNeighbor

(***************************************************************************)
(* An established channel of the channeler (channel.rs, Channel).  One     *)
(* poll of the future runs its loop until it returns.  A frame of the      *)
(* remote is what deserialize_enc_message gives once the frame has been    *)
(* decrypted: the counter and the content, where a keep-alive has no       *)
(* content; the content of the k-th frame the remote made is k, so that a  *)
(* delivered message names its frame.  Undecryptable is a frame that fails *)
(* decryption or deserialization.  What the two sinks take during one poll *)
(* is the outcome of that poll: the frames the TCP sink takes, whether it  *)
(* has flushed, and the messages the networker's queue takes.  The width   *)
(* of the counters is CounterBits in place of 64.                          *)
(***************************************************************************)
CounterBits == 1

MaxChannelFrames == 3

MaxToChannel == 3

KEEP_ALIVE_TICKS == 1

\* u64::max_value(), at the width of the model.
u64_max_value == 2 ^ CounterBits - 1

Undecryptable == [garbled |-> TRUE]

SinkOutcomes == [outer_room : 0..1, outer_flushed : BOOLEAN, inner_room : 0..1]

\* update_counter
update_counter(counter) == IF counter = u64_max_value THEN 0 ELSE counter + 1

\* The Channel that ChannelNew::poll returns from its final stage.
new_channel ==
    [inner_buffered |-> None, outer_buffered |-> None, send_counter |-> 0,
     recv_counter |-> 0, remaining_tick_to_send_ka |-> KEEP_ALIVE_TICKS,
     remaining_tick_to_recv_ka |-> 2 * KEEP_ALIVE_TICKS, result |-> "NotReady",
     error |-> "none"]

\* Channel::pack_msg
pack_msg(ch, content) == [counter |-> ch.send_counter, content |-> content]

\* Channel::unpack_msg
unpack_msg(ch, raw) ==
    IF raw = Undecryptable THEN [ch |-> ch, ok |-> FALSE, error |-> "EncryptError"]
    ELSE IF raw.counter # ch.recv_counter
    THEN [ch |-> ch, ok |-> FALSE, error |-> "unexpected counter"]
    ELSE [ch |-> [ch EXCEPT !.recv_counter = update_counter(@)], ok |-> TRUE,
          content |-> raw.content]

\* What a step of Channel::poll gives: the channel, the streams and sinks,
\* Ready, NotReady or Err, and the value or the error that comes with it.
poll_of(ch, io, ret, value) == [ch |-> ch, io |-> io, ret |-> ret, value |-> value]

\* Channel::try_start_send_inner
try_start_send_inner(ch, io, msg) ==
    IF io.inner_room = 0
    THEN poll_of([ch EXCEPT !.inner_buffered = Some(msg)], io, "NotReady", None)
    ELSE poll_of(ch, [io EXCEPT !.inner_room = @ - 1, !.delivered = Append(@, msg)],
                 "Ready", None)

\* Channel::try_start_send_outer; io.sent notes the frames the TCP sink took.
try_start_send_outer(ch, io, msg) ==
    IF io.outer_room = 0
    THEN poll_of([ch EXCEPT !.outer_buffered = Some(msg)], io, "NotReady", None)
    ELSE poll_of([ch EXCEPT !.send_counter = update_counter(@)],
                 [io EXCEPT !.outer_room = @ - 1, !.sent = Append(@, msg)],
                 "Ready", None)

\* Channel::try_poll_inner
RECURSIVE try_poll_inner(_, _)
try_poll_inner(ch, io) ==
    IF io.inner_rx = <<>>
    THEN IF io.inner_closed THEN poll_of(ch, io, "Ready", None)
         ELSE poll_of(ch, io, "NotReady", None)
    ELSE With([io EXCEPT !.inner_rx = Tail(@)], LAMBDA rest :
           IF Head(io.inner_rx) = "TimeTick"
           THEN With([ch EXCEPT !.remaining_tick_to_send_ka = @ - 1,
                                !.remaining_tick_to_recv_ka = @ - 1],
                     LAMBDA ticked :
                  IF ticked.remaining_tick_to_recv_ka = 0
                  THEN poll_of(ticked, rest, "Err", "KeepAliveTimeout")
                  ELSE IF ticked.remaining_tick_to_send_ka = 0
                  THEN With([ticked EXCEPT !.remaining_tick_to_send_ka = KEEP_ALIVE_TICKS],
                            LAMBDA reset :
                              poll_of(reset, rest, "Ready", Some(pack_msg(reset, None))))
                  ELSE try_poll_inner(ticked, rest))
           ELSE poll_of(ch, rest, "Ready", Some(pack_msg(ch, Some("raw")))))

\* Channel::try_poll_outer; io.accepted and io.rejected note what unpack_msg
\* said of each frame.
RECURSIVE try_poll_outer(_, _)
try_poll_outer(ch, io) ==
    IF io.outer_rx = <<>>
    THEN IF io.outer_closed THEN poll_of(ch, io, "Ready", None)
         ELSE poll_of(ch, io, "NotReady", None)
    ELSE With(unpack_msg(ch, Head(io.outer_rx)), LAMBDA u :
           IF ~u.ok
           THEN poll_of(u.ch, [io EXCEPT !.outer_rx = Tail(@),
                                         !.rejected = Append(@, Head(io.outer_rx))],
                        "Err", u.error)
           ELSE With([io EXCEPT !.outer_rx = Tail(@),
                                !.accepted = Append(@, Head(io.outer_rx))],
                     LAMBDA rest :
                  IF IsSome(u.content)
                  THEN poll_of(u.ch, rest, "Ready", Some(Unwrap(u.content)))
                  ELSE try_poll_outer(
                         [u.ch EXCEPT !.remaining_tick_to_recv_ka = 2 * KEEP_ALIVE_TICKS],
                         rest)))

RECURSIVE channel_poll(_, _)

\* Channel::poll, the arm taken when the inner receiver is not ready.
poll_outer_side(ch, io) ==
    IF ~io.outer_flushed THEN poll_of(ch, io, "NotReady", None)
    ELSE With(IF IsSome(ch.inner_buffered)
              THEN try_start_send_inner([ch EXCEPT !.inner_buffered = None], io,
                                        Unwrap(ch.inner_buffered))
              ELSE poll_of(ch, io, "Ready", None),
              LAMBDA a :
           IF a.ret # "Ready" THEN a
           ELSE With(try_poll_outer(a.ch, a.io), LAMBDA b :
                  CASE b.ret = "Err" -> b
                    [] b.ret = "NotReady" -> b
                    [] b.ret = "Ready" /\ b.value = None -> b
                    [] OTHER ->
                         With(try_start_send_inner(b.ch, b.io, Unwrap(b.value)), LAMBDA c :
                           IF c.ret # "Ready" THEN c ELSE channel_poll(c.ch, c.io))))

\* Channel::poll
channel_poll(ch, io) ==
    With(IF IsSome(ch.outer_buffered)
         THEN try_start_send_outer([ch EXCEPT !.outer_buffered = None], io,
                                   Unwrap(ch.outer_buffered))
         ELSE poll_of(ch, io, "Ready", None),
         LAMBDA a :
      IF a.ret # "Ready" THEN a
      ELSE With(try_poll_inner(a.ch, a.io), LAMBDA b :
             CASE b.ret = "Err" -> b
               [] b.ret = "NotReady" -> poll_outer_side(b.ch, b.io)
               [] b.ret = "Ready" /\ b.value = None -> b
               [] OTHER ->
                    With(try_start_send_outer(b.ch, b.io, Unwrap(b.value)), LAMBDA c :
                      IF c.ret # "Ready" THEN c ELSE channel_poll(c.ch, c.io))))

no_channel == [result |-> "none"]

\* ch_io: the two streams the channel reads.  ch_seen: the frames the remote
\* has made and the messages the channeler has sent so far, the frames
\* unpack_msg accepted and rejected, in order, and the contents delivered to
\* the networker.
EstablishedInit ==
    /\ channel = no_channel
    /\ ch_io = [inner_rx |-> <<>>, inner_closed |-> FALSE,
                outer_rx |-> <<>>, outer_closed |-> FALSE]
    /\ ch_seen = [frames |-> 0, to_channel |-> 0, accepted |-> <<>>, rejected |-> <<>>,
                  delivered |-> <<>>, sent |-> <<>>]

\* The handshake has completed.
ChOpened ==
    /\ channel.result = "none"
    /\ channel' = new_channel
    /\ UNCHANGED <<ch_io, ch_seen>>
    /\ UNCHANGED other_than_established

\* The executor polls the channel until it has resolved.
ChPoll(o) ==
    /\ channel.result = "NotReady"
    /\ \E t \in {channel_poll(channel,
                              [inner_rx |-> ch_io.inner_rx, inner_closed |-> ch_io.inner_closed,
                               outer_rx |-> ch_io.outer_rx, outer_closed |-> ch_io.outer_closed,
                               outer_room |-> o.outer_room, outer_flushed |-> o.outer_flushed,
                               inner_room |-> o.inner_room, accepted |-> ch_seen.accepted,
                               rejected |-> ch_seen.rejected,
                               delivered |-> ch_seen.delivered, sent |-> ch_seen.sent])} :
          /\ channel' = [t.ch EXCEPT !.result = t.ret,
                                     !.error = IF t.ret = "Err" THEN t.value ELSE "none"]
          /\ ch_io' = [ch_io EXCEPT !.inner_rx = t.io.inner_rx, !.outer_rx = t.io.outer_rx]
          /\ ch_seen' = [ch_seen EXCEPT !.accepted = t.io.accepted,
                                        !.rejected = t.io.rejected,
                                        !.delivered = t.io.delivered,
                                        !.sent = t.io.sent]
    /\ UNCHANGED other_than_established

\* The remote's frame arrives: a keep-alive or a message, with any counter.
ChRemoteFrame(counter, is_message) ==
    /\ channel.result = "NotReady"
    /\ ~ch_io.outer_closed
    /\ ch_io.outer_rx = <<>>
    /\ ch_seen.frames < MaxChannelFrames
    /\ ch_io' = [ch_io EXCEPT !.outer_rx =
                    <<[counter |-> counter,
                       content |-> IF is_message THEN Some(ch_seen.frames + 1) ELSE None]>>]
    /\ ch_seen' = [ch_seen EXCEPT !.frames = @ + 1]
    /\ UNCHANGED channel
    /\ UNCHANGED other_than_established

\* A frame arrives that does not decrypt.
ChRemoteUndecryptable ==
    /\ channel.result = "NotReady"
    /\ ~ch_io.outer_closed
    /\ ch_io.outer_rx = <<>>
    /\ ch_seen.frames < MaxChannelFrames
    /\ ch_io' = [ch_io EXCEPT !.outer_rx = <<Undecryptable>>]
    /\ ch_seen' = [ch_seen EXCEPT !.frames = @ + 1]
    /\ UNCHANGED channel
    /\ UNCHANGED other_than_established

\* The TCP connection ends.
ChRemoteCloses ==
    /\ channel.result = "NotReady"
    /\ ~ch_io.outer_closed
    /\ ch_io' = [ch_io EXCEPT !.outer_closed = TRUE]
    /\ UNCHANGED <<channel, ch_seen>>
    /\ UNCHANGED other_than_established

\* The channeler sends the channel a time tick or a message to send.
ChToChannel(msg) ==
    /\ channel.result = "NotReady"
    /\ ~ch_io.inner_closed
    /\ ch_io.inner_rx = <<>>
    /\ ch_seen.to_channel < MaxToChannel
    /\ ch_io' = [ch_io EXCEPT !.inner_rx = <<msg>>]
    /\ ch_seen' = [ch_seen EXCEPT !.to_channel = @ + 1]
    /\ UNCHANGED channel
    /\ UNCHANGED other_than_established

\* The channeler drops its sender.
ChInnerCloses ==
    /\ channel.result = "NotReady"
    /\ ~ch_io.inner_closed
    /\ ch_io' = [ch_io EXCEPT !.inner_closed = TRUE]
    /\ UNCHANGED <<channel, ch_seen>>
    /\ UNCHANGED other_than_established

EstablishedNext ==
    \/ ChOpened
    \/ \E o \in SinkOutcomes : ChPoll(o)
    \/ \E counter \in 0..u64_max_value, is_message \in BOOLEAN :
          ChRemoteFrame(counter, is_message)
    \/ ChRemoteUndecryptable
    \/ ChRemoteCloses
    \/ \E msg \in {"TimeTick", "SendMessage"} : ChToChannel(msg)
    \/ ChInnerCloses

(***************************************************************************)
(* The exchange of InconsistencyError messages between two peers A and B   *)
(* (handle_friend.rs, handle_inconsistency_error).  The exchange starts    *)
(* from any outgoing statuses of the two sides and any InconsistencyError  *)
(* on its way to either side; after the start the only events are the      *)
(* deliveries of these messages.  The two sides disagree on the channel:   *)
(* their tokens, and with them their reset tokens, differ.                 *)
(***************************************************************************)
OutgoingStatuses == {"Empty", "Sent", "Acked"}

\* The directional channel of peer p when the exchange starts.
IcNewToken(p) == IF p = "A" THEN 1 ELSE 2

IcSlot(p, outgoing) ==
    [new_slot EXCEPT !.directional.new_token = IcNewToken(p),
                     !.inconsistency_status.outgoing = outgoing]

IcState(p, outgoing) ==
    [local_public_key |-> p,
     friends |-> (Peer(p) :> [new_friend EXCEPT !.tc_slots[0] = IcSlot(p, outgoing)])]

IcResetToken(p) == calc_channel_reset_token(IcSlot(p, "Empty").directional)

\* A token that is the reset token of neither side.
StaleToken == 0

\* The InconsistencyError messages that may be on their way to p when the
\* exchange starts: the reset terms of the other side or stale terms, with
\* no acknowledgement, the acknowledgement of p's reset token, or another.
IcMessages(p) ==
    {as_received(InconsistencyErrorMsg(opt_ack, 0, current_token, 0)) :
        opt_ack \in {None, Some(IcResetToken(p)), Some(StaleToken)},
        current_token \in {IcResetToken(Peer(p)), StaleToken}}

\* The most messages on their way to one side when the exchange starts.
MaxIcInFlight == 1

IcInFlight(p) ==
    UNION {[1..n -> IcMessages(p)] : n \in 0..MaxIcInFlight}

IcEnv(p) == [order |-> <<Peer(p)>>, avoid |-> {}, payment_id |-> 1]

\* The most replies counted in ic_seen.
RepliesCounted == 2

InconsistencyInit ==
    /\ ic_peers = [p \in PairPeers |-> IcState(p, "Empty")]
    /\ ic_wire = [p \in PairPeers |-> <<>>]
    /\ ic_seen = [started |-> FALSE, replies |-> 0, panicked |-> FALSE]

\* The exchange starts.
IcStart(outgoing, in_flight) ==
    /\ ~ic_seen.started
    /\ ic_peers' = [p \in PairPeers |-> IcState(p, outgoing[p])]
    /\ ic_wire' = in_flight
    /\ ic_seen' = [ic_seen EXCEPT !.started = TRUE]
    /\ UNCHANGED other_than_inconsistency

\* The first message on its way to p arrives and is handled to completion;
\* the messages the handler sends are on their way to the other side.
IcDeliver(p) ==
    /\ ic_seen.started
    /\ ~ic_seen.panicked
    /\ ic_wire[p] /= <<>>
    /\ \E h \in {simulate_handle_friend_message(ic_peers[p], new_messenger_cache,
                    Peer(p), Head(ic_wire[p]), IcEnv(p))} :
          IF h.panicked
          THEN /\ ic_seen' = [ic_seen EXCEPT !.panicked = TRUE]
               /\ UNCHANGED <<ic_peers, ic_wire>>
          ELSE /\ ic_peers' = [ic_peers EXCEPT ![p] = mutate_all(@, done(h).mutations)]
               /\ ic_wire' = [q \in PairPeers |->
                     IF q = p THEN Tail(ic_wire[p])
                     ELSE ic_wire[q] \o
                          [i \in DOMAIN friend_messages(done(h).messenger_tasks) |->
                              as_received(friend_messages(done(h).messenger_tasks)[i])]]
               /\ ic_seen' = [ic_seen EXCEPT !.replies =
                     IF @ + Len(friend_messages(done(h).messenger_tasks)) > RepliesCounted
                     THEN RepliesCounted
                     ELSE @ + Len(friend_messages(done(h).messenger_tasks))]
    /\ UNCHANGED other_than_inconsistency

InconsistencyNext ==
    \/ \E outgoing \in [PairPeers -> OutgoingStatuses],
          to_a \in IcInFlight("A"), to_b \in IcInFlight("B") :
          IcStart(outgoing, [p \in PairPeers |-> IF p = "A" THEN to_a ELSE to_b])
    \/ \E p \in PairPeers : IcDeliver(p)

Init ==
    /\ NodeInit /\ PairInit /\ FunderInit /\ KeepAliveInit
    /\ OverwriteInit /\ GraphInit /\ VerifierInit
    /\ HandshakeInit /\ EstablishedInit /\ InconsistencyInit /\ LockstepInit

Next == NodeNext

vars == <<base_vars, ext_vars>>

Spec == Init /\ [][Next]_vars

SpecChannel == Init /\ [][ChannelNext]_vars

SpecPair == Init /\ [][PairNext]_vars

SpecInit == Init /\ [][InitNext]_vars

SpecKeepAlive == Init /\ [][KeepAliveNext]_vars

SpecBackToBack == Init /\ [][BackToBackNext]_vars

SpecLockstep == Init /\ [][LockstepNext]_vars

SpecOverwrite == Init /\ [][OverwriteNext]_vars

SpecGraph == Init /\ [][GraphNext]_vars

SpecLoops == Init /\ [][LoopsNext]_vars

SpecVerifier == Init /\ [][VerifierNext]_vars

SpecAnnouncements == Init /\ [][AnnouncementsNext]_vars

SpecTestGetRoute == Init /\ [][TestGetRouteNext]_vars

SpecHandshake == Init /\ [][HandshakeNext]_vars

SpecEstablished == Init /\ [][EstablishedNext]_vars

SpecInconsistency == Init /\ [][InconsistencyNext]_vars

\* Every message on its way is delivered.
SpecInconsistencyLive ==
    SpecInconsistency /\ \A p \in PairPeers : WF_vars(IcDeliver(p))

\* The executor polls a task that runs or was woken, and a consumer that has
\* not closed takes what is sent to it.
SpecOverwriteLive ==
    SpecOverwrite /\ WF_vars(OwPoll) /\ WF_vars(OwConsumerTakes)

(***************************************************************************)
(* Properties of the handler.  `last` holds the event handled last and     *)
(* what its handler returned; a step of the handler leaves app.originated  *)
(* as it is, a step of the application adds to it.                         *)
(***************************************************************************)
SlotIn(state, pk) == get_token_channel_slot(state, pk, 0)

TraceKinds(h) == {h.trace[i] : i \in DOMAIN h.trace}

Rejections == {"ChainInconsistent", "InvalidTransaction", "TokenNotOwned"}

HandlerStep == app'.originated = app.originated

\* The step handles a move token of friend pk for a token channel we have.
MoveTokenStep(pk) ==
    /\ HandlerStep
    /\ last'.event.pk = pk
    /\ last'.event.message.kind = "MoveToken"
    /\ last'.event.message.msg.token_channel_index < LocalMaxChannels

\* The step handles an inconsistency error of friend pk for a token channel
\* we have.
InconsistencyErrorStep(pk) ==
    /\ HandlerStep
    /\ last'.event.pk = pk
    /\ last'.event.message.kind = "InconsistencyError"
    /\ last'.event.message.token_channel_index < LocalMaxChannels

\* Requests delivered to the application, failures queued, requests
\* forwarded by a handler, for one request id.
delivered_count(h, request_id) ==
    Cardinality({i \in DOMAIN h.messenger_tasks :
        /\ h.messenger_tasks[i].task = "CrypterMessage"
        /\ h.messenger_tasks[i].kind = "RequestReceived"
        /\ h.messenger_tasks[i].request_id = request_id})

failure_queued_at(h, i, request_id) ==
    /\ h.mutations[i].fm.type = "SlotMutation"
    /\ h.mutations[i].fm.sm.type = "PushBackPendingOperation"
    /\ h.mutations[i].fm.sm.op.type = "FailureSendMessage"
    /\ h.mutations[i].fm.sm.op.msg.request_id = request_id

failures_count(h, request_id) ==
    Cardinality({i \in DOMAIN h.mutations : failure_queued_at(h, i, request_id)})

forwards_count(h, request_id) ==
    Cardinality({i \in DOMAIN h.mutations :
        /\ h.mutations[i].fm.type = "PushBackPendingRequest"
        /\ h.mutations[i].fm.req.request_id = request_id})

failures_surfaced(h, request_id) ==
    Cardinality({i \in DOMAIN h.messenger_tasks :
        /\ h.messenger_tasks[i].task = "CrypterMessage"
        /\ h.messenger_tasks[i].kind = "FailureReceived"
        /\ h.messenger_tasks[i].request_id = request_id})

\* Is the request still on its way: queued for a friend, or pending with one?
in_flight(state, request_id) ==
    \E pk \in DOMAIN state.friends :
        \/ \E i \in DOMAIN state.friends[pk].pending_requests :
              state.friends[pk].pending_requests[i].request_id = request_id
        \/ \E ci \in DOMAIN state.friends[pk].tc_slots :
              request_id \in DOMAIN state.friends[pk].tc_slots[ci].directional
                                        .token_channel.pending_local_requests

\* C1: every request the application originated gets exactly one result
\* surfaced to the application: never two, and one (not zero) once the
\* request is no longer queued or pending with a friend, whether a response
\* arrived, a failure arrived, or the channel was reset.
C1_OneResultPerLocalRequest ==
    \A request_id \in app.originated :
        /\ app.surfaced[request_id] <= 1
        /\ ~in_flight(messenger_state, request_id) => app.surfaced[request_id] = 1

\* C2: a move token that simulate_receive_move_token rejects changes nothing
\* but the inconsistency status of its token channel: the ledger, the
\* direction and the tokens, the pending queues of every friend and the
\* freeze guard are as before the event.
C2_RejectedMoveTokenIsAtomic ==
    [][\A pk \in Friends :
          (/\ MoveTokenStep(pk)
           /\ ~last'.h.panicked
           /\ TraceKinds(last'.h) \cap Rejections /= {}) =>
             /\ SlotIn(messenger_state', pk).directional
                    = SlotIn(messenger_state, pk).directional
             /\ messenger_state' =
                    [messenger_state EXCEPT
                        !.friends[pk].tc_slots[0].inconsistency_status =
                            SlotIn(messenger_state', pk).inconsistency_status]
             /\ messenger_cache' = messenger_cache]_vars

\* A rejected batch arrived while a request of ours was pending.
C2_Witness ==
    /\ ~last.h.panicked
    /\ last.h.trace = <<"InvalidTransaction">>
    /\ DOMAIN SlotIn(messenger_state, "F").directional.token_channel
                  .pending_local_requests /= {}

\* C5: a move token classified as Duplicate is a no-op: its handler returns
\* no mutation and no task, whatever the inconsistency status.
C5_DuplicateIsNoOp ==
    "Duplicate" \in TraceKinds(last.h) =>
        /\ last.h.mutations = <<>>
        /\ last.h.messenger_tasks = <<>>

\* C6: the handler of a move token resets the channel exactly when the
\* old_token of the move token is our reset token, and a move token that
\* resets the channel is not run through simulate_receive_move_token.
C6_ResetOnOldTokenOnly ==
    [][\A pk \in Friends :
          MoveTokenStep(pk) =>
             LET performed == "reset" \in TraceKinds(last'.h)
                 reset_token == calc_channel_reset_token(
                                    SlotIn(messenger_state, pk).directional)
             IN  /\ performed <=>
                        last'.event.message.msg.old_token = reset_token
                 /\ performed => last'.h.trace = <<"reset">>]_vars

C9_ResetCancelsEveryPendingRequest ==
    [][\A pk \in Friends :
          (/\ MoveTokenStep(pk)
           /\ ~last'.h.panicked
           /\ "reset" \in TraceKinds(last'.h)) =>
             \A request_id \in DOMAIN SlotIn(messenger_state, pk).directional
                                          .token_channel.pending_local_requests :
                IF request_id \in app.originated
                THEN /\ failures_surfaced(last'.h, request_id) = 1
                     /\ failures_count(last'.h, request_id) = 0
                ELSE /\ failures_surfaced(last'.h, request_id) = 0
                     /\ failures_count(last'.h, request_id) = 1
                     /\ \A i \in DOMAIN last'.h.mutations :
                           failure_queued_at(last'.h, i, request_id) =>
                              /\ last'.h.mutations[i].pk /= pk
                              /\ request_id \in
                                    DOMAIN SlotIn(messenger_state,
                                                  last'.h.mutations[i].pk)
                                        .directional.token_channel
                                        .pending_remote_requests
                              /\ last'.h.mutations[i].fm.sm.op.msg
                                     .reporting_public_key = LocalPk]_vars

\* C10: every request received in a move token has exactly one outcome in the
\* handler that completes: it is delivered to the application, or one Failure
\* is queued, or it is forwarded; never two of these, never two failures.
C10_OneOutcomePerRequest ==
    (/\ last.event.message.kind = "MoveToken"
     /\ ~last.h.panicked
     /\ "Received" \in TraceKinds(last.h)) =>
        \A i \in DOMAIN last.event.message.msg.operations :
           LET op == last.event.message.msg.operations[i]
           IN  op.type = "RequestSendMessage" =>
                  delivered_count(last.h, op.msg.request_id)
                    + failures_count(last.h, op.msg.request_id)
                    + forwards_count(last.h, op.msg.request_id) = 1

(***************************************************************************)
(* Properties of the two peers.                                            *)
(***************************************************************************)
\* Is the mutation the composing of a new move token?
is_compose(messenger_mutation) ==
    /\ messenger_mutation.fm.type = "SlotMutation"
    /\ messenger_mutation.fm.sm.type = "DirectionalMutation"
    /\ messenger_mutation.fm.sm.dm.type = "SetDirection"
    /\ messenger_mutation.fm.sm.dm.direction = "Outgoing"

\* The directional channel of peer p just before the j-th mutation of a
\* handler that started in the present state.
directional_before(p, messenger_mutations, j) ==
    get_token_channel_slot(
        mutate_all(peers[p].state, SubSeq(messenger_mutations, 1, j - 1)),
        Peer(p), 0).directional

\* A new move token is composed only by the holder of the token, over the
\* new_token of the move token it applied last.
ComposedOverHeldToken ==
    \A j \in DOMAIN pair_last'.h.mutations :
        (~pair_last'.h.panicked /\ is_compose(pair_last'.h.mutations[j])) =>
            LET before == directional_before(pair_last'.peer,
                                             pair_last'.h.mutations, j)
                inner == Unwrap(pair_last'.h.mutations[j].fm.sm.dm.outgoing)
            IN  /\ before.direction = "Incoming"
                /\ inner.old_token = before.new_token

AtMostOneHolder ==
    ~(\A p \in PairPeers : PairSlot(p).directional.direction = "Incoming")

OneMoveTokenPerOldToken ==
    \A m1, m2 \in issued :
        m1.inner.old_token = m2.inner.old_token => m1 = m2

\* C4: between two peers, a new move token is composed only while the
\* direction is Incoming and over the new_token of the last move token
\* applied; at most one peer holds the token in every reachable state, and
\* no two different move tokens are issued over the same old_token.
C4_TwoPeerTokenRule ==
    /\ [](AtMostOneHolder /\ OneMoveTokenPerOldToken)
    /\ [][ComposedOverHeldToken]_vars

\* A peer has just received a move token and replied with a new one, the
\* third of the chain at least.
C4_Witness ==
    /\ ~pair_last.h.panicked
    /\ pair_last.h.trace = <<"Received">>
    /\ \E j \in DOMAIN pair_last.h.mutations : is_compose(pair_last.h.mutations[j])
    /\ Cardinality(issued) >= 3

\* C8: an inconsistency notification is sent again until it is
\* acknowledged.  In a state where no message is on its way and both peers
\* run, nothing but a retransmission can take a peer out of Sent: no peer
\* is in Sent in such a state.
C8_SentIsRetransmittedUntilAcked ==
    (InFlight = 0 /\ \A p \in PairPeers : ~peers[p].panicked) =>
        \A p \in PairPeers : PairSlot(p).inconsistency_status.outgoing /= "Sent"

\* The state the handler of the last event worked on, with every ledger
\* operation it accepted applied: the state of the node, or, when the
\* handler panicked, the state it had reached.
handler_state ==
    IF last.h.panicked THEN mutate_all(messenger_state, last.h.mutations)
    ELSE messenger_state

\* C3: after every accepted ledger operation the balance of a token
\* channel is within [-local_max_debt, remote_max_debt], so that
\* balance + local_max_debt is never negative.
C3_BalanceWithinMaxDebts ==
    \A pk \in Friends :
        LET tc == SlotIn(handler_state, pk).directional.token_channel
        IN  /\ 0 - tc.local_max_debt <= tc.balance
            /\ tc.balance <= tc.remote_max_debt

(***************************************************************************)
(* Properties of forwarding, of the answers and of the freeze guard.       *)
(***************************************************************************)
\* The request operations of the move token handled last.
received_requests ==
    {last.event.message.msg.operations[i].msg :
        i \in {j \in DOMAIN last.event.message.msg.operations :
                  last.event.message.msg.operations[j].type = "RequestSendMessage"}}

\* Is the mutation the forwarding of a request to a friend?
is_forward(messenger_mutation) ==
    messenger_mutation.fm.type = "PushBackPendingRequest"

\* C11: a request forwarded by the node at index i of its route is appended,
\* with exactly one freeze link added to those it arrived with, to the
\* pending_requests of the friend at index i + 1 of the route, never to those
\* of the friend at index i - 1 it arrived from.  (A handler that panics
\* after it forwarded is included: last.h holds the mutations it made.)
C11_ForwardedToNextFriend ==
    last.event.message.kind = "MoveToken" =>
        \A j \in DOMAIN last.h.mutations :
            is_forward(last.h.mutations[j]) =>
                LET req == last.h.mutations[j].fm.req
                    i == Unwrap(pk_index(req.route, LocalPk))
                IN  /\ Some(last.h.mutations[j].pk) = pk_by_index(req.route, i + 1)
                    /\ Some(last.h.mutations[j].pk) /= pk_by_index(req.route, i - 1)
                    /\ \E received \in received_requests :
                          /\ received.request_id = req.request_id
                          /\ Len(req.freeze_links) = Len(received.freeze_links) + 1
                          /\ SubSeq(req.freeze_links, 1, Len(received.freeze_links))
                                 = received.freeze_links
                          /\ [req EXCEPT !.freeze_links = received.freeze_links]
                                 = received

\* The token channels whose pending_remote_requests hold the request.
remote_holders(state, request_id) ==
    {c \in {[pk |-> pk, channel_index |-> ci] :
               pk \in DOMAIN state.friends, ci \in 0..(LocalMaxChannels - 1)} :
        request_id \in DOMAIN state.friends[c.pk].tc_slots[c.channel_index]
                                  .directional.token_channel.pending_remote_requests}

responses_surfaced(h, request_id) ==
    Cardinality({i \in DOMAIN h.messenger_tasks :
        /\ h.messenger_tasks[i].task = "CrypterMessage"
        /\ h.messenger_tasks[i].kind = "ResponseReceived"
        /\ h.messenger_tasks[i].request_id = request_id})

\* The places where a handler queued the response to a request.
responses_queued(h, request_id) ==
    {i \in DOMAIN h.mutations :
        /\ h.mutations[i].fm.type = "SlotMutation"
        /\ h.mutations[i].fm.sm.type = "PushBackPendingOperation"
        /\ h.mutations[i].fm.sm.op.type = "ResponseSendMessage"
        /\ h.mutations[i].fm.sm.op.msg.request_id = request_id}

\* C12: a response received for request r is surfaced to the application
\* once, and queued nowhere, when no friend holds r in pending_remote_requests;
\* otherwise it is queued once, on a token channel that holds r, and not
\* surfaced.  The lookup of r in a friend returns a channel that holds r, or
\* None when none of the friend's channels holds it.
C12_ResponseGoesToOrigin ==
    [][\A pk \in Friends :
          (/\ MoveTokenStep(pk)
           /\ ~last'.h.panicked
           /\ "Received" \in TraceKinds(last'.h)) =>
             \A i \in DOMAIN last'.event.message.msg.operations :
                LET op == last'.event.message.msg.operations[i]
                    r == op.msg.request_id
                    holders == remote_holders(messenger_state, r)
                    queued == responses_queued(last'.h, r)
                IN  op.type = "ResponseSendMessage" =>
                       /\ \A g \in Friends :
                             LET found == find_token_channel_by_request_id(
                                              messenger_state.friends[g], r)
                             IN  IF IsSome(found)
                                 THEN [pk |-> g, channel_index |-> Unwrap(found)]
                                          \in holders
                                 ELSE \A c \in holders : c.pk /= g
                       /\ holders = {} =>
                             /\ responses_surfaced(last'.h, r) = 1
                             /\ queued = {}
                       /\ holders /= {} =>
                             /\ responses_surfaced(last'.h, r) = 0
                             /\ Cardinality(queued) = 1
                             /\ \A j \in queued :
                                   [pk |-> last'.h.mutations[j].pk,
                                    channel_index |->
                                        last'.h.mutations[j].fm.channel_index]
                                       \in holders]_vars

\* No request is queued for a friend or pending with one, and no answer is
\* queued: every request the node processed has been answered or refused.
nothing_pending(state) ==
    \A pk \in DOMAIN state.friends :
        /\ state.friends[pk].pending_requests = <<>>
        /\ \A ci \in DOMAIN state.friends[pk].tc_slots :
              LET slot == state.friends[pk].tc_slots[ci]
              IN  /\ slot.pending_operations = <<>>
                  /\ DOMAIN slot.directional.token_channel
                                .pending_local_requests = {}
                  /\ DOMAIN slot.directional.token_channel
                                .pending_remote_requests = {}

\* C13: frozen credit is conserved over a round trip: once every request the
\* node processed has been answered by a response or a failure, or refused
\* locally, the totals of the freeze guard are what they were before the
\* requests were processed, zero for every pair of neighbours.
C13_FrozenCreditConserved ==
    (~last.h.panicked /\ nothing_pending(messenger_state)) =>
        \A key \in DOMAIN messenger_cache.freeze_guard :
            messenger_cache.freeze_guard[key] = 0

(***************************************************************************)
(* Properties of the reply to a move token.                                *)
(***************************************************************************)
\* The move tokens a handler sent.
move_tokens_sent(h) ==
    {i \in DOMAIN h.messenger_tasks :
        /\ h.messenger_tasks[i].task = "FriendMessage"
        /\ h.messenger_tasks[i].kind = "MoveToken"}

\* The last event was a move token that was Received, handled to completion.
received_move_token ==
    /\ last.event.message.kind = "MoveToken"
    /\ ~last.h.panicked
    /\ "Received" \in TraceKinds(last.h)

op_class(op) ==
    CASE op.type \in {"ResponseSendMessage", "FailureSendMessage"} -> 1
      [] op.type = "RequestSendMessage" ->
            IF op.msg.request_id \in app.originated THEN 3 ELSE 2
      [] OTHER -> 0

RECURSIVE ops_len(_)
ops_len(operations) ==
    IF operations = <<>> THEN 0
    ELSE op_len(Head(operations)) + ops_len(Tail(operations))

C17_OneAddFriendPerEnabledFriend ==
    init_last.ran =>
        LET friends == init_last.given.friends
            outgoing_comms == init_last.h.outgoing_comms
            sent(pk) == {i \in DOMAIN outgoing_comms :
                            outgoing_comms[i] =
                                [comm |-> "ChannelerConfig", config |-> "AddFriend",
                                 friend_public_key |-> pk,
                                 address |-> friends[pk].remote_address]}
        IN  /\ \A pk \in DOMAIN friends :
                  Cardinality(sent(pk)) =
                      IF friends[pk].status = "Enable" THEN 1 ELSE 0
            /\ DOMAIN outgoing_comms = UNION {sent(pk) : pk \in DOMAIN friends}
            /\ init_last.h.mutations = <<>>
            /\ init_last.h.state = init_last.given

\* handle_init ran with an enabled and a disabled friend in the state.
C17_Witness ==
    /\ init_last.ran
    /\ \E pk, other \in DOMAIN init_last.given.friends :
          /\ init_last.given.friends[pk].status = "Enable"
          /\ init_last.given.friends[other].status = "Disable"
    /\ Len(init_last.h.outgoing_comms) >= 2

(***************************************************************************)
(* C18                                                                     *)
(***************************************************************************)
\* The ticks an endpoint has processed since the last frame it received from
\* the remote, or since its start.
ticks_of_silence(p) == ka_hist[p].silence

\* C18: a keep-alive loop with period T >= 1 closes with RemoteTimeout
\* exactly when it processes the T-th consecutive timer tick since the last
\* frame it received from the remote (or since its start), never earlier: a
\* loop that closed with RemoteTimeout has seen T ticks of silence, a loop
\* that runs has seen fewer, and T ticks of silence are only seen by a loop
\* that closed with RemoteTimeout.  Any frame received starts the count
\* again.  The periods include 16.
C18_RemoteTimeoutOnTthSilentTick ==
    \A p \in PairPeers :
        (ka[p].started /\ ka[p].keepalive_ticks >= 1) =>
            /\ ticks_of_silence(p) <= ka[p].keepalive_ticks
            /\ (ka[p].result = "RemoteTimeout") <=>
                   (ticks_of_silence(p) = ka[p].keepalive_ticks)

\* A loop of period 16 that received a message from the remote, delivered it
\* and then closed on the 16th tick of silence.
C18_Witness ==
    /\ ka["A"].keepalive_ticks = 16
    /\ ka["A"].result = "RemoteTimeout"
    /\ ticks_of_silence("A") = 16
    /\ ka_hist["A"].delivered /= <<>>

(***************************************************************************)
(* C19                                                                     *)
(***************************************************************************)
\* The ticks an endpoint has processed since the last frame it sent to the
\* remote (a user message or a keep-alive), or since its start.
ticks_since_sent(p) == ka_hist[p].idle

\* The step is a timer tick processed by p.
ka_tick_step(p) == ka_hist'[p].silence = ka_hist[p].silence + 1

\* In this step p sends a KeepAlive frame to the remote; towards a remote
\* that has closed the send fails, and the loop closes with
\* SendToRemoteError.
ka_sends_keepalive(p) ==
    IF KaRemoteOpen(p)
    THEN ka_wire'[Peer(p)] = Append(ka_wire[Peer(p)], serialize_ka_message(KaKeepAlive))
    ELSE ka'[p].result = "SendToRemoteError"

\* C19: a keep-alive loop with period T >= 2 sends a KeepAlive frame exactly
\* when it processes the floor(T/2)-th consecutive tick since the last frame
\* it sent to the remote (user message or keep-alive, or since its start) and
\* the timeout does not fire on that tick; on every other tick it sends
\* nothing.  Hence a running loop has never seen floor(T/2) ticks since its
\* last outbound frame.
C19_KeepAliveEveryHalfPeriod ==
    [][\A p \in PairPeers :
          (ka[p].started /\ ka[p].keepalive_ticks >= 2) =>
              /\ ka_tick_step(p) =>
                    /\ ka_sends_keepalive(p) <=>
                          /\ ticks_since_sent(p) + 1 = ka[p].keepalive_ticks \div 2
                          /\ ka'[p].result /= "RemoteTimeout"
                    /\ ~ka_sends_keepalive(p) =>
                          /\ ka_wire'[Peer(p)] = ka_wire[Peer(p)]
                          /\ ka'[p].result /= "SendToRemoteError"
              /\ ka'[p].result = "" =>
                    ka_hist'[p].idle < ka[p].keepalive_ticks \div 2
      ]_vars

\* A loop of period 16 whose user sent a message and which, eight ticks or
\* more of silence later, has just sent a KeepAlive frame that is still on
\* its way.
C19_Witness ==
    /\ ka["A"].keepalive_ticks = 16
    /\ ka["A"].result = ""
    /\ ka_hist["A"].sent /= <<>>
    /\ ticks_of_silence("A") >= 8
    /\ ticks_since_sent("A") = 0
    /\ ka_wire["B"] = <<serialize_ka_message(KaKeepAlive)>>

(***************************************************************************)
(* C20                                                                     *)
(***************************************************************************)
\* The payloads of the Message frames among the frames: a frame that starts
\* with the byte of a message carries the rest as its payload.
RECURSIVE message_payloads(_)
message_payloads(frames) ==
    IF frames = <<>> THEN <<>>
    ELSE (IF Head(frames) /= <<>> /\ Head(Head(frames)) = 1
          THEN <<Tail(Head(frames))>> ELSE <<>>)
         \o message_payloads(Tail(frames))

\* In this step p takes a frame from the remote.
ka_receive_step(p) == ka_wire[p] /= <<>> /\ ka_wire'[p] = Tail(ka_wire[p])

\* What the user of p was given is, in order and unchanged, a prefix of what
\* the user of the other endpoint sent, and all of it up to the messages
\* still on their way while the loop of p runs.
delivered_what_was_sent(p) ==
    /\ Len(ka_hist[p].delivered) <= Len(ka_hist[Peer(p)].sent)
    /\ ka_hist[p].delivered = SubSeq(ka_hist[Peer(p)].sent, 1, Len(ka_hist[p].delivered))
    /\ KaRunning(p) =>
          ka_hist[p].delivered \o message_payloads(ka_wire[p]) = ka_hist[Peer(p)].sent

\* C20: the keep-alive channel is transparent for application frames.  An
\* endpoint whose user listens delivers, for every frame it takes from the
\* remote, the payload of the frame when it is a Message frame and nothing
\* when it is a KeepAlive frame, and delivers nothing in any other step; for
\* two endpoints back to back, what one user receives is, in order and
\* unchanged, what the other user sent.
C20_TransparentForApplicationFrames ==
    [][\A p \in PairPeers :
          /\ (ka[p].started /\ ka[p].user_open) =>
                ka_hist'[p].delivered =
                    IF ka_receive_step(p)
                    THEN ka_hist[p].delivered \o message_payloads(<<Head(ka_wire[p])>>)
                    ELSE ka_hist[p].delivered
          /\ ka'[p].started => delivered_what_was_sent(p)'
      ]_vars

\* Two endpoints back to back: the user of B received the two messages the
\* user of A sent, the user of A received one from the user of B, and a
\* KeepAlive frame is on its way to B.
C20_Witness ==
    /\ ka["A"].started /\ ka["B"].started
    /\ Len(ka_hist["A"].sent) = 2
    /\ ka_hist["B"].delivered = ka_hist["A"].sent
    /\ ka_hist["A"].delivered /= <<>>
    /\ ka_wire["B"] = <<serialize_ka_message(KaKeepAlive)>>

(***************************************************************************)
(* C21                                                                     *)
(***************************************************************************)
\* The consumer was given the item as the last one so far.
last_taken_is(item) ==
    ow_down.taken /= <<>> /\ ow_down.taken[Len(ow_down.taken)] = item

\* C21: once the producer has closed, the last item it sent is eventually
\* delivered to the consumer, whatever was sent before and whenever the sink
\* was ready, unless the consumer closes first; the sink becomes ready
\* because a consumer that has not closed takes what is sent to it.
C21_LastItemIsDelivered ==
    (ow_up.closed /\ ow_up.sent >= 1) ~> (ow_down.closed \/ last_taken_is(ow_up.sent))

\* The producer sent all its items and closed, the consumer was given the
\* last one but not all of them: one was overwritten.
C21_Witness ==
    /\ ow_up.closed
    /\ ow_up.sent = MaxItems
    /\ ~ow_down.closed
    /\ last_taken_is(MaxItems)
    /\ Len(ow_down.taken) < MaxItems

(***************************************************************************)
(* C22                                                                     *)
(***************************************************************************)
\* The upstream stream has ended: the producer closed and nothing is left.
upstream_ended == ow_up.closed /\ ow_up.queue = <<>> /\ ~ow.receiver_present

\* C22: the future of the overwrite channel resolves with Ok only after the
\* upstream stream has ended and the slot is empty, what it held having been
\* handed to the sink; and once the upstream has closed the future does
\* resolve: with Ok unless the consumer has closed.
C22_ResolvesAfterUpstreamEnds ==
    /\ [](ow.result = "Ok" =>
            /\ upstream_ended
            /\ ow.opt_item = None
            /\ ow_down.closed \/ ow_up.sent = 0
                  \/ last_taken_is(ow_up.sent)
                  \/ (ow_down.queue /= <<>> /\ ow_down.queue[Len(ow_down.queue)] = ow_up.sent))
    /\ ow_up.closed ~> (ow.result /= "")
    /\ ow_up.closed ~> (ow.result = "Ok" \/ ow_down.closed)

\* The future resolved with Ok after the producer sent all its items, and
\* the last item is still in the sink for a consumer that has not closed.
C22_Witness ==
    /\ ow.result = "Ok"
    /\ ow_up.sent = MaxItems
    /\ ~ow_down.closed
    /\ ow_down.queue = <<MaxItems>>

(***************************************************************************)
(* C23                                                                     *)
(***************************************************************************)
\* The nodes reached from the nodes of `reached` by one stored edge or more
\* whose send capacity is at least the capacity.
capable_successors(nodes, x, capacity) ==
    {y \in graph_nodes(nodes) :
        /\ \E e \in graph_edges(nodes) : e[1] = x /\ e[2] = y
        /\ get_send_capacity(nodes, x, y) >= capacity}

RECURSIVE reached_from(_, _, _)
reached_from(nodes, reached, capacity) ==
    With(reached \cup UNION {capable_successors(nodes, x, capacity) : x \in reached},
         LAMBDA more :
        IF more = reached THEN reached ELSE reached_from(nodes, more, capacity))

\* There is a path of one edge or more from a to b all of whose consecutive
\* pairs have send capacity >= capacity.
has_path(nodes, a, b, capacity) ==
    b \in reached_from(nodes, capable_successors(nodes, a, capacity), capacity)

\* C23: for every graph, every pair of nodes a, b (with or without an entry
\* in the graph) and every capacity (0 included), get_route(a, b, capacity)
\* returns a result, None or Some, and it is None if and only if there is no
\* path from a to b all of whose consecutive pairs have send capacity >= the
\* capacity.
C23_RouteIffPath ==
    cg_last.op = "get_route" =>
        /\ cg_last.result.kind \in {"None", "Some"}
        /\ (cg_last.result.kind = "None") <=>
               ~has_path(cg, cg_last.a, cg_last.b, cg_last.capacity)

(***************************************************************************)
(* C24                                                                     *)
(***************************************************************************)
\* C24: on the graph built by the calls of test_get_route (edge 2->5 set
\* twice, no edge 5->2), get_route(0, 5, 25) returns the route
\* [0,1,3,4,2,5] with capacity 30.
C24_TestGetRouteResult ==
    (/\ cg_calls = Len(TestGetRouteCalls)
     /\ cg_last.op = "get_route"
     /\ cg_last.a = 0 /\ cg_last.b = 5 /\ cg_last.capacity = 25) =>
        cg_last.result = [kind |-> "Some", route |-> <<0, 1, 3, 4, 2, 5>>, capacity |-> 30]

(***************************************************************************)
(* C25                                                                     *)
(***************************************************************************)
\* The edges stored from a to b: at most one.
edges_between(nodes, a, b) == {e[3] : e \in {t \in graph_edges(nodes) : t[1] = a /\ t[2] = b}}

\* C25: the send capacity from a to b is min(send of the edge a->b, recv of
\* the edge b->a), and it is 0 when either of the two edges is absent.
C25_SendCapacityIsMinOfSendAndRecv ==
    cg_last.op = "get_send_capacity" =>
        IF edges_between(cg, cg_last.a, cg_last.b) = {}
              \/ edges_between(cg, cg_last.b, cg_last.a) = {}
        THEN cg_last.result = 0
        ELSE \E ab \in edges_between(cg, cg_last.a, cg_last.b) :
             \E ba \in edges_between(cg, cg_last.b, cg_last.a) :
                 cg_last.result = IF ab[1] <= ba[2] THEN ab[1] ELSE ba[2]

\* The send capacity between two nodes whose edges report different values:
\* a sends at most 2, b receives at most 1.
C25_Witness ==
    /\ cg_last.op = "get_send_capacity"
    /\ cg_last.a /= cg_last.b
    /\ edges_between(cg, cg_last.a, cg_last.b) = {<<2, 1>>}
    /\ edges_between(cg, cg_last.b, cg_last.a) = {<<2, 1>>}
    /\ cg_last.result = 1

(***************************************************************************)
(* C26                                                                     *)
(***************************************************************************)
\* C26: remove_node(a) removes exactly the edges that leave a and keeps every
\* other edge as it is, the edges b->a stored under other nodes included; for
\* a node without outgoing edges the graph stays as it is.
C26_RemoveNodeRemovesOutgoingEdges ==
    [][\A a \in GraphNodes :
          CgRemoveNode(a) =>
              /\ graph_edges(cg') = {e \in graph_edges(cg) : e[1] /= a}
              /\ (~\E e \in graph_edges(cg) : e[1] = a) => cg' = cg
      ]_vars

\* remove_node(a) has returned the outgoing edges of a, and an edge that
\* points to a is still stored under another node.
C26_Witness ==
    /\ cg_last.op = "remove_node"
    /\ IsSome(cg_last.result)
    /\ cg_last.a \notin DOMAIN cg
    /\ \E e \in graph_edges(cg) : e[2] = cg_last.a

(***************************************************************************)
(* C27                                                                     *)
(***************************************************************************)
\* The tick hash at which the time stamp of the last announcement ends, 0
\* when its chain (of one link at most) does not hold the hash it is to
\* expand.
stamp_tick ==
    IF vf_last.expansion_chain = <<>> THEN vf_last.origin_tick_hash
    ELSE IF vf_last.origin_tick_hash \in vf_last.expansion_chain[1].contains
    THEN vf_last.expansion_chain[1].hash
    ELSE 0

\* The hash is that of one of the last ticks_to_live ticks.
live_tick(hash) ==
    /\ hash >= 1
    /\ hash <= vf_seen.ticks
    /\ hash > vf_seen.ticks - TicksToLive

\* verify has succeeded exactly for a live time stamp and a counter greater
\* than the one stored for (node, session_id), and has then stored the
\* counter.
verify_checks_stamp_and_counter ==
    /\ IsSome(vf_last.result) <=>
          /\ live_tick(stamp_tick)
          /\ ~IsSome(vf_last.stored) \/ vf_last.counter > Unwrap(vf_last.stored)
    /\ IsSome(vf_last.result) =>
          /\ <<vf_last.node, vf_last.session_id>> \in DOMAIN verifier.ratchet_pool.ratchets
          /\ verifier.ratchet_pool.ratchets[<<vf_last.node, vf_last.session_id>>].counter
                = vf_last.counter
    /\ ~IsSome(vf_last.result) =>
          IF IsSome(vf_last.stored)
          THEN /\ <<vf_last.node, vf_last.session_id>> \in DOMAIN verifier.ratchet_pool.ratchets
               /\ verifier.ratchet_pool.ratchets[<<vf_last.node, vf_last.session_id>>].counter
                     = Unwrap(vf_last.stored)
          ELSE <<vf_last.node, vf_last.session_id>> \notin DOMAIN verifier.ratchet_pool.ratchets

\* The original statement of C27: verify succeeds if and only if the
\* expansion chain ends at a live tick hash and the counter is greater than
\* the stored one, and then stores the counter; hence, for each
\* (node, session_id), the counters of the accepted announcements are strictly
\* increasing.
C27_AcceptedCountersIncrease ==
    vf_last.op = "verify" =>
        /\ verify_checks_stamp_and_counter
        /\ (IsSome(vf_last.result) /\ IsSome(vf_last.accepted)) =>
              vf_last.counter > Unwrap(vf_last.accepted).counter

\* C27: verify succeeds if and only if the expansion chain ends at a tick
\* hash of the live history and the counter is greater than the counter
\* stored for (node, session_id), none being stored counting as smaller; on
\* success the stored counter becomes the given one; an announcement whose
\* tick has aged out is rejected.  The counters accepted for a
\* (node, session_id) are strictly increasing as long as fewer than
\* ticks_to_live ticks pass between two accepted announcements: after
\* ticks_to_live ticks without one the ratchet is forgotten and any counter is
\* accepted again.
C27_FreshAndIncreasingWhileRemembered ==
    vf_last.op = "verify" =>
        /\ verify_checks_stamp_and_counter
        /\ (/\ IsSome(vf_last.result)
            /\ IsSome(vf_last.accepted)
            /\ Unwrap(vf_last.accepted).ticks_since < TicksToLive) =>
              vf_last.counter > Unwrap(vf_last.accepted).counter
        /\ ~live_tick(stamp_tick) => ~IsSome(vf_last.result)

\* An announcement stamped through an expansion chain is accepted one tick
\* after the previous one of its session, with a greater counter.
C27_Witness ==
    /\ vf_last.op = "verify"
    /\ IsSome(vf_last.result)
    /\ vf_last.expansion_chain /= <<>>
    /\ IsSome(vf_last.accepted)
    /\ Unwrap(vf_last.accepted).ticks_since = 1
    /\ vf_last.counter > Unwrap(vf_last.accepted).counter

(***************************************************************************)
(* C28.  The pending connection of an Initiator handshake is released      *)
(* exactly once by the time the future resolves.                           *)
(***************************************************************************)
\* The future has resolved, with a channel or with an error.
handshake_resolved == channel_new.result \in {"Ready", "Err"}

\* How often the neighbor's num_pending_out_conn was decremented since the
\* future was created.
pending_released ==
    cn_seen.pending_at_start - cn_neighbors[Neighbor].num_pending_out_conn

\* C28: for a ChannelNew in the Initiator role, whenever the handshake future
\* has resolved, successfully or with any error, the neighbor's
\* num_pending_out_conn has been decremented exactly once.
C28_PendingConnectionReleasedOnce ==
    (/\ channel_new.role = "Initiator"
     /\ handshake_resolved
     /\ Neighbor \in DOMAIN cn_neighbors)
    => pending_released = 1

(***************************************************************************)
(* C29.  An established channel accepts a frame only with the counter that *)
(* counts the frames accepted before it.                                   *)
(***************************************************************************)
\* The frames unpack_msg has accepted carry the counters 0, 1, 2, ...
accepted_in_count == \A i \in 1..Len(ch_seen.accepted) : ch_seen.accepted[i].counter = i - 1

\* Whatever reached the networker is the content of an accepted frame.
delivered_were_accepted ==
    \A i \in 1..Len(ch_seen.delivered) :
        \E j \in 1..Len(ch_seen.accepted) :
            ch_seen.accepted[j].content = Some(ch_seen.delivered[i])

\* A frame that unpack_msg refused has ended the channel with an error.
rejected_ends_channel == ch_seen.rejected # <<>> => channel.result = "Err"

\* C29: on an established channel a received frame is accepted only if its
\* counter equals the number of frames accepted so far; a frame whose counter
\* was already used, or that is skipped ahead or reordered, is never
\* delivered to the networker and ends the channel with an error.
C29_FrameCounterIsAcceptedCount ==
    /\ accepted_in_count
    /\ delivered_were_accepted
    /\ rejected_ends_channel

(***************************************************************************)
(* C30.  Composing an outgoing move token never aborts the handler.        *)
(***************************************************************************)
\* The compose found the channel not in Incoming direction (the unwrap of
\* begin_outgoing_move_token panicked).
compose_not_incoming(h) == "ComposeNotIncoming" \in TraceKinds(h)

\* The ledger refused a queued operation with an error other than
\* MaxLengthReached (unreachable!() was hit).
compose_queue_error(h) == "ComposeQueueError" \in TraceKinds(h)

\* C30: composing an outgoing move token never aborts the handler: every
\* operation the handler has queued for a friend is accepted by the local
\* ledger or deferred with MaxLengthReached, no other queue error occurs,
\* and the channel is in Incoming direction whenever a compose starts.
C30_ComposeNeverAborts ==
    /\ ~compose_queue_error(last.h)
    /\ ~compose_not_incoming(last.h)

(***************************************************************************)
(* C31.  A compose pass removes from the queues exactly what it emits.     *)
(***************************************************************************)
\* The handler has composed and has not panicked.
compose_pass(h) == IsSome(h.composed) /\ ~h.panicked

\* The operations of the move token the handler emits; none when it emits
\* no move token.
RECURSIVE emitted_operations(_)
emitted_operations(messenger_tasks) ==
    IF messenger_tasks = <<>> THEN <<>>
    ELSE IF Head(messenger_tasks).task = "FriendMessage"
            /\ Head(messenger_tasks).kind = "MoveToken"
    THEN Head(messenger_tasks).msg.operations
    ELSE emitted_operations(Tail(messenger_tasks))

\* The emitted operations that come from the queues: all but those the
\* compose makes itself (SetRemoteMaxDebt, EnableRequests, DisableRequests).
from_queues(operations) ==
    SelectSeq(operations,
              LAMBDA op : op.type \in {"RequestSendMessage", "ResponseSendMessage",
                                       "FailureSendMessage"})

\* How many entries of a queue were removed, given what it held before and
\* what it holds after.
removed_count(before, after) == Len(before) - Len(after)

\* after is what remains of before when its first entries are removed.
is_rest_of(before, after) ==
    /\ Len(after) <= Len(before)
    /\ after = SubSeq(before, removed_count(before, after) + 1, Len(before))

removed_from(before, after) == SubSeq(before, 1, removed_count(before, after))

queues_after(h) ==
    [pending_operations |->
         h.state.friends[Unwrap(h.composed).pk]
             .tc_slots[Unwrap(h.composed).channel_index].pending_operations,
     pending_requests |-> h.state.friends[Unwrap(h.composed).pk].pending_requests]

emitted_is_removed(h) ==
    LET before == Unwrap(h.composed)
        after == queues_after(h)
        requests == removed_from(before.pending_requests, after.pending_requests)
    IN  /\ is_rest_of(before.pending_operations, after.pending_operations)
        /\ is_rest_of(before.pending_requests, after.pending_requests)
        /\ from_queues(emitted_operations(h.messenger_tasks))
             = removed_from(before.pending_operations, after.pending_operations)
                 \o [i \in DOMAIN requests |-> RequestOp(requests[i])]

\* C31: across a compose pass an operation is removed from the friend's
\* pending_operations or pending_requests if and only if it is in the
\* operations of the move token that is emitted, in the same relative order;
\* what does not fit remains queued in its order; nothing is lost and
\* nothing is sent twice.
C31_EmittedIffRemovedFromQueues == compose_pass(last.h) => emitted_is_removed(last.h)

\* A compose pass that emitted a queued operation and left another queued.
C31_Witness ==
    /\ compose_pass(last.h)
    /\ from_queues(emitted_operations(last.h.messenger_tasks)) # <<>>
    /\ \/ queues_after(last.h).pending_requests # <<>>
       \/ queues_after(last.h).pending_operations # <<>>

(***************************************************************************)
(* C32: the exchange of InconsistencyError messages terminates.            *)
(***************************************************************************)
ic_quiet == \A p \in PairPeers : ic_wire[p] = <<>>

\* C32: from any outgoing statuses of the two sides and any
\* InconsistencyError messages in flight, with no other events, the exchange
\* comes to rest: eventually no InconsistencyError is in flight any more and
\* none is sent again.
C32_InconsistencyExchangeTerminates == <>[](ic_seen.started => ic_quiet)

\* An exchange in which replies were sent has come to rest.
C32_Witness ==
    /\ ic_seen.started /\ ic_quiet /\ ~ic_seen.panicked
    /\ ic_seen.replies >= 2
    /\ \A p \in PairPeers :
          ic_peers[p].friends[Peer(p)].tc_slots[0].inconsistency_status.outgoing = "Acked"

(***************************************************************************)
(* C33: no announcement is accepted twice.                                 *)
(***************************************************************************)
live_hashes(v) == {v.hash_clock.history[i] : i \in DOMAIN v.hash_clock.history}

\* The original statement of C33: no announcement is accepted twice, and
\* when a tick forgets the ratchet of (node, session_id), every tick hash
\* that was live while the ratchet held its counter, the hashes live just
\* before that tick among them, has aged out of the hash clock.
C33_LiveWhileHeldHasAgedOut ==
    /\ ~vf_seen.accepted_again
    /\ (vf_last.op = "tick" /\ vf_last.forgotten /= {}) =>
          live_hashes(vf_last.before) \cap live_hashes(verifier) = {}

\* C33: across any interleaving of tick, neighbor_tick and verify calls, no
\* announcement (origin tick hash, expansion chain, node, session_id and
\* counter) is accepted twice; when a tick forgets the ratchet of
\* (node, session_id), every tick hash that was live when that ratchet was
\* last updated has aged out of the hash clock.
C33_NoAnnouncementAcceptedTwice ==
    /\ ~vf_seen.accepted_again
    /\ vf_last.op = "tick" =>
          \A k \in vf_last.forgotten \cap DOMAIN vf_last.live_at_update :
              live_hashes([hash_clock |-> [history |-> vf_last.live_at_update[k]]])
                  \cap live_hashes(verifier) = {}
    /\ vf_last.op = "neighbor_tick" =>
          /\ verifier.ratchet_pool = vf_last.before.ratchet_pool
          /\ verifier.hash_clock.history = vf_last.before.hash_clock.history

\* The followed announcement was accepted, its ratchet has been forgotten by
\* the last tick, and a neighbor has reported a hash in between.
C33_Witness ==
    /\ IsSome(vf_seen.followed)
    /\ vf_last.op = "tick"
    /\ <<"n", Unwrap(vf_seen.followed).session_id>> \in vf_last.forgotten
    /\ verifier.hash_clock.neighbor_hashes /= <<>>
    /\ verifier.hash_clock.history /= <<>>

(***************************************************************************)
(* C34: a verify call that returns None leaves the verifier unchanged.     *)
(***************************************************************************)
\* What verify answers to every announcement of (node, session_id) when
\* called on verifier v.
verdicts(v, node, session_id) ==
    [stamp \in TimeStamps, counter \in 0..MaxCounter |->
        IsSome(verify(v, stamp[1], stamp[2], node, session_id, counter).result)]

\* C34: a verify call that returns None leaves the verifier unchanged, the
\* ratchet counter of (node, session_id) included when the expansion chain
\* check fails, so every announcement of (node, session_id), whatever its
\* counter, is answered after the rejected call as it would have been
\* answered before it.
C34_RejectedVerifyChangesNothing ==
    [][vf_last'.op = "verify" /\ ~IsSome(vf_last'.result) =>
          /\ verifier' = verifier
          /\ verdicts(verifier', vf_last'.node, vf_last'.session_id)
                = verdicts(verifier, vf_last'.node, vf_last'.session_id)]_vars

\* An announcement with a counter greater than the stored one was rejected
\* for its time stamp, and the stored counter is as it was.
C34_Witness ==
    /\ vf_last.op = "verify" /\ ~IsSome(vf_last.result)
    /\ ~IsSome(verify_expansion_chain(verifier.hash_clock, vf_last.origin_tick_hash,
                                      vf_last.expansion_chain))
    /\ IsSome(vf_last.stored) /\ vf_last.counter > Unwrap(vf_last.stored)
    /\ verifier.ratchet_pool.ratchets[<<vf_last.node, vf_last.session_id>>].counter
          = Unwrap(vf_last.stored)

(***************************************************************************)
(* C35: two endpoints on one tick stream.                                  *)
(***************************************************************************)
\* The original statement of C35: two keep-alive endpoints with the same
\* period T >= 2, back to back on a reliable channel and driven by the same
\* tick stream, never declare RemoteTimeout, whatever their users send.
C35_NoRemoteTimeoutInLockstep ==
    \A p \in PairPeers :
        ka[p].started /\ ka[p].keepalive_ticks >= 2 => ka[p].result /= "RemoteTimeout"

\* C35: two keep-alive endpoints with the same period T >= 3, back to back
\* on a reliable channel and driven by the same tick stream (each tick
\* processed by both, in either order, every frame emitted before or on a
\* tick delivered before the next tick), never declare RemoteTimeout,
\* whatever their users send; neither loop closes at all.
C35_NoRemoteTimeoutFromPeriodThree ==
    \A p \in PairPeers :
        ka[p].started /\ ka[p].keepalive_ticks >= 3 => ka[p].result = ""

\* Both endpoints have processed more ticks than the longest period while no
\* user has sent anything.
C35_Witness ==
    /\ \A p \in PairPeers : KaRunning(p) /\ ka_hist[p].sent = <<>>
    /\ ka["A"].keepalive_ticks = 5
    /\ ka_lockstep.ticks >= 6
    /\ ka_lockstep.ahead = None

(***************************************************************************)
(* C36: what the overwrite channel hands to the sink.                      *)
(***************************************************************************)
\* The items handed to the sink so far, and the number of items received
\* from the upstream (the producer sends 1, 2, 3, .. in this order).
handed(down) == down.taken \o down.queue

received(up) == up.sent - Len(up.queue)

order_preserving_subsequence(items, count) ==
    /\ \A i \in DOMAIN items : items[i] \in 1..count
    /\ \A i, j \in DOMAIN items : i < j => items[i] < items[j]

\* The item that waits is the last one received, it is newer than all that
\* was handed over, and the sink was found not ready for it.
slot_holds_latest(o, up, down) ==
    IsSome(o.opt_item) =>
        /\ Unwrap(o.opt_item) = received(up)
        /\ \A i \in DOMAIN handed(down) : handed(down)[i] < Unwrap(o.opt_item)
        /\ o.refused = o.opt_item

\* The last item received was not discarded: it waits or was handed over.
latest_is_kept(o, up, down) ==
    received(up) > 0 =>
        \/ o.opt_item = Some(received(up))
        \/ handed(down) /= <<>> /\ handed(down)[Len(handed(down))] = received(up)

\* A step in which an item arrives while another one waits in the slot: the
\* sink had been found not ready for the one that waits.
overwrites_only_refused ==
    /\ received(ow_up') <= received(ow_up) + 1
    /\ IsSome(ow.opt_item) /\ received(ow_up') > received(ow_up) =>
          /\ ow.refused = ow.opt_item
          /\ Unwrap(ow.opt_item) < received(ow_up')

\* The original statement of C36: the items handed to the sink are an
\* order-preserving subsequence of the items received, none twice; the slot
\* holds one item at most; an item is discarded only when a newer item
\* arrives while it waits in the slot after the sink was found not ready,
\* so the last item received always waits or was handed over.
C36_DiscardedOnlyByNewerItem ==
    [][/\ order_preserving_subsequence(handed(ow_down'), received(ow_up'))
       /\ slot_holds_latest(ow', ow_up', ow_down')
       /\ latest_is_kept(ow', ow_up', ow_down')
       /\ overwrites_only_refused]_vars

\* C36: the items handed to the sink are an order-preserving subsequence of
\* the items received from the upstream, none twice; the slot holds one
\* item at most; as long as the sink returns no error, an item is discarded
\* only when a newer item arrives while it waits in the slot after the sink
\* was found not ready, so the last item received waits or was handed over.
\* When the sink returns an error the future ends with it and the item in
\* the slot is dropped.
C36_DiscardedOnlyByNewerItemOrSinkError ==
    [][/\ order_preserving_subsequence(handed(ow_down'), received(ow_up'))
       /\ slot_holds_latest(ow', ow_up', ow_down')
       /\ ow'.result /= "Err" => latest_is_kept(ow', ow_up', ow_down')
       /\ ow'.result = "Err" => ow'.opt_item = None
       /\ overwrites_only_refused]_vars

\* Item 2 was discarded for item 3 while the sink was not ready, and the
\* sink was handed 1 and 3.
C36_Witness ==
    /\ ow.result /= "Err"
    /\ handed(ow_down) = <<1, 3>>
    /\ received(ow_up) = 3

(***************************************************************************)
(* C37, C38: the loops of get_loop_from and get_loop_to.                   *)
(***************************************************************************)
loop_returned(op) == cg_last.op = op /\ cg_last.result.kind = "Some"

uses_edge(route, from, to) ==
    \E i \in 1..(Len(route) - 1) : route[i] = from /\ route[i + 1] = to

\* A loop from a to a over hops that have the send capacity asked for.
is_loop_with_capacity(route, a, capacity) ==
    /\ Len(route) >= 2
    /\ route[1] = a /\ route[Len(route)] = a
    /\ \A i \in 1..(Len(route) - 1) :
          get_send_capacity(cg, route[i], route[i + 1]) >= capacity

\* C37: a loop returned by get_loop_from(a, neighbor, cap) starts and ends at
\* a and never uses the edge neighbor -> a; a loop returned by
\* get_loop_to(a, neighbor, cap) starts and ends at a and never uses the edge
\* a -> neighbor; every hop of a returned loop has send capacity >= cap.
C37_LoopsAvoidTheForbiddenEdge ==
    /\ loop_returned("get_loop_from") =>
          /\ is_loop_with_capacity(cg_last.result.route, cg_last.a, cg_last.capacity)
          /\ ~uses_edge(cg_last.result.route, cg_last.b, cg_last.a)
    /\ loop_returned("get_loop_to") =>
          /\ is_loop_with_capacity(cg_last.result.route, cg_last.a, cg_last.capacity)
          /\ ~uses_edge(cg_last.result.route, cg_last.a, cg_last.b)

\* get_loop_from returned a loop although the edge neighbor -> a has the
\* capacity asked for: the loop goes around it.
C37_Witness ==
    /\ loop_returned("get_loop_from")
    /\ cg_last.a /= cg_last.b
    /\ IsSome(get_edge(cg, cg_last.b, cg_last.a))
    /\ get_send_capacity(cg, cg_last.b, cg_last.a) >= cg_last.capacity
    /\ uses_edge(cg_last.result.route, cg_last.a, cg_last.b)

\* C38: for a neighbor other than a, get_loop_from(a, neighbor, cap) returns
\* a loop whose second node is neighbor, and get_loop_to(a, neighbor, cap)
\* returns a loop whose node before the last is neighbor.
C38_LoopsPassThroughNeighbor ==
    /\ loop_returned("get_loop_from") /\ cg_last.a /= cg_last.b =>
          cg_last.result.route[2] = cg_last.b
    /\ loop_returned("get_loop_to") /\ cg_last.a /= cg_last.b =>
          cg_last.result.route[Len(cg_last.result.route) - 1] = cg_last.b

(***************************************************************************)
(* C39: no node with an empty adjacency map.                               *)
(***************************************************************************)
nodes_with_edges(nodes) == {a \in DOMAIN nodes : DOMAIN nodes[a] /= {}}

\* C39: after any sequence of update_edge, remove_edge and remove_node, no
\* stored node has an empty adjacency map (the stored nodes are the nodes
\* with an outgoing edge); remove_edge of an absent edge returns None and
\* leaves the graph unchanged.
C39_NoNodeWithoutEdges ==
    /\ Cardinality(DOMAIN cg) = Cardinality(nodes_with_edges(cg))
    /\ \A a \in DOMAIN cg : cg[a] /= <<>>
    /\ \A a, b \in GraphNodes :
          ~IsSome(get_edge(cg, a, b)) =>
              remove_edge(cg, a, b) = [nodes |-> cg, result |-> None]
    /\ cg_last.op = "remove_edge" /\ ~IsSome(cg_last.result) =>
          ~IsSome(get_edge(cg, cg_last.a, cg_last.b))

\* remove_edge has removed the last edge of a node, whose entry is gone,
\* while another node keeps its edges.
C39_Witness ==
    /\ cg_last.op = "remove_edge" /\ IsSome(cg_last.result)
    /\ cg_last.a \notin DOMAIN cg
    /\ cg /= <<>>

(***************************************************************************)
(* C40: the counters of the frames handed to the TCP sink.                 *)
(***************************************************************************)
\* C40: the frames an established Channel hands to the TCP sink carry the
\* counters 0, 1, 2, ... consecutively, each exactly once and in order,
\* whatever the interleaving of data sends, keep-alive ticks and sink
\* backpressure; a frame the sink does not accept is kept in outer_buffered
\* with the counter it was packed with.
C40_SentCountersAreConsecutive ==
    /\ \A i \in DOMAIN ch_seen.sent : ch_seen.sent[i].counter = i - 1
    /\ channel.result /= "none" /\ IsSome(channel.outer_buffered) =>
          Unwrap(channel.outer_buffered).counter = Len(ch_seen.sent)

====
